---------------------------- MODULE Spec2Model ----------------------------
(***************************************************************************)
(* A model of the rav1e encoder core and its tiling views.                 *)
(*                                                                         *)
(*   SpecRegion  - PlaneRegion / PlaneRegionMut   (tiling/plane_region.rs) *)
(*   SpecBlocks  - BlocksRegionMut                (tiling/blocks_region.rs)*)
(*   SpecHeader  - write_uncompressed_header      (lib.rs)                 *)
(*   Spec        - process_frame down to write_b  (lib.rs)                 *)
(*   SpecTx      - write_tx_b on one block        (lib.rs)                 *)
(*   SpecTile    - TileStateMut                   (tiling/tile_state.rs)   *)
(*                                                                         *)
(* All the specifications share the variables below; each one moves only  *)
(* its own group and leaves the other groups at their idle value.          *)
(***************************************************************************)
EXTENDS Integers, Sequences, FiniteSets, TLC

VARIABLES
  plane_cfg,   \* PlaneConfig of the plane the views are cut from
  views,       \* the chain of live views: views[1] from new, views[k+1] cut from views[k]
  rpanic,      \* an assertion of plane_region.rs has failed
  frame_blocks,\* FrameBlocks storage, row-major, FrameCols cells per row
  blocks_pre,  \* history: the storage as it was before the last writer call
  breg,        \* the BlocksRegionMut view (NoRegion before BlocksRegionMut::new)
  bcall,       \* the last call on the view and what it returned
  bstatus,     \* "ok", or "panic" once an assertion / bounds check has failed
  hfi,         \* the FrameInvariants write_uncompressed_header is given
  uch,         \* the BitWriter: the bits queued towards the next byte
  packet,      \* the bytes the BitWriter has written to the packet
  hpc,         \* the statement of write_uncompressed_header to run next
  efi,         \* the FrameInvariants encode_tile is given
  pic,         \* the input picture, as the costs the encoder measures on it
  cw,          \* the ContextWriter: range coder w, CDFs fc, block context bc
  stack,       \* the call stack below encode_tile, innermost frame last
  estatus,     \* "running", "done", or "panic" once an assertion or index failed
  cps,         \* history: the checkpoints taken and not yet rolled back
  tile_out,    \* the bytes encode_tile returns
  io,          \* process_frame's surroundings: frame source, sinks, last_rec, result
  fs,          \* the FrameState: whether the input is loaded, the rec planes
  hist,        \* history: what the search decided and what the writers did last
  iter,        \* the RowsIter / RowsIterMut taken from the innermost view
  row,         \* the row region[i] has handed out, or the failed index
  txb,         \* one call of write_tx_b: its block of samples and its locals
  ts           \* the TileStateMut, and the last call of one of its methods

regionVars == <<plane_cfg, views, rpanic, iter, row>>

blocksVars == <<frame_blocks, blocks_pre, breg, bcall, bstatus>>

headerVars == <<hfi, uch, packet, hpc>>

encoderVars == <<efi, pic, cw, stack, estatus, cps, tile_out, io, fs, hist>>

vars == <<plane_cfg, views, rpanic,
          frame_blocks, blocks_pre, breg, bcall, bstatus,
          hfi, uch, packet, hpc,
          efi, pic, cw, stack, estatus, cps, tile_out, io, fs, hist, iter,
          row, txb, ts>>

txVars == <<txb>>

tileVars == <<ts>>

nonRegionVars == <<blocksVars, headerVars, encoderVars, txVars, tileVars>>

nonBlocksVars == <<regionVars, headerVars, encoderVars, txVars, tileVars>>

nonHeaderVars == <<regionVars, blocksVars, encoderVars, txVars, tileVars>>

nonEncoderVars == <<regionVars, blocksVars, headerVars, txVars, tileVars>>

nonTxVars == <<regionVars, blocksVars, headerVars, encoderVars, tileVars>>

nonTileVars == <<regionVars, blocksVars, headerVars, encoderVars, txVars>>

Last(s) == s[Len(s)]

Min(a, b) == IF a < b THEN a ELSE b

(***************************************************************************)
(* PlaneRegion                                                             *)
(***************************************************************************)

\* bounds of the region model
MaxDepth == 3        \* longest chain new -> subregion -> subregion
MaxExtent == 8       \* largest width / height of a requested rectangle
MaxOverrun == 2      \* next() is called on an iterator at most MaxExtent + MaxOverrun times

\* usize is 64 bits wide in the build; TLC's integers are 32 bits wide, so the
\* wrap of a negative isize cast to usize is modelled with a 2^30 modulus.  The
\* wrapped value is only ever compared against a region extent.
UsizeMod == 2^30

AsUsize(v) == v % UsizeMod

BLOCK_TO_PLANE_SHIFT == 2

Shl(v, n) == v * (2^n)

Shr(v, n) == v \div (2^n)

MkRect(x, y, w, h) == [x |-> x, y |-> y, width |-> w, height |-> h]

\* Area::to_rect
ToRect(area, xdec, ydec, parent_width, parent_height) ==
  CASE area.kind = "Rect" ->
         MkRect(area.x, area.y, area.width, area.height)
    [] area.kind = "StartingAt" ->
         MkRect(area.x, area.y,
                AsUsize(parent_width - area.x), AsUsize(parent_height - area.y))
    [] area.kind = "BlockRect" ->
         MkRect(Shl(Shr(area.bo.x, xdec), BLOCK_TO_PLANE_SHIFT),
                Shl(Shr(area.bo.y, ydec), BLOCK_TO_PLANE_SHIFT),
                area.width, area.height)
    [] area.kind = "BlockStartingAt" ->
         LET x == Shl(Shr(area.bo.x, xdec), BLOCK_TO_PLANE_SHIFT)
             y == Shl(Shr(area.bo.y, ydec), BLOCK_TO_PLANE_SHIFT)
         IN  MkRect(x, y, AsUsize(parent_width - x), AsUsize(parent_height - y))

\* the two assertions of PlaneRegion::new
NewAsserts(cfg, rect) ==
  /\ cfg.xorigin + rect.x + rect.width <= cfg.stride
  /\ cfg.yorigin + rect.y + rect.height <= cfg.alloc_height

\* the storage index the data pointer of a new region addresses
NewOrigin(cfg, rect) ==
  (cfg.yorigin + rect.y) * cfg.stride + cfg.xorigin + rect.x

\* the two assertions of subregion / subregion_mut
SubregionAsserts(parent, rect) ==
  /\ rect.x >= 0 /\ AsUsize(rect.x) <= parent.rect.width
  /\ rect.y >= 0 /\ AsUsize(rect.y) <= parent.rect.height

\* the view subregion / subregion_mut builds
SubregionView(parent, rect, cfg, isMut) ==
  [ rect |-> MkRect(parent.rect.x + rect.x, parent.rect.y + rect.y,
                    rect.width, rect.height),
    data |-> parent.data + rect.y * cfg.stride + rect.x,
    mut  |-> isMut,
    via  |-> "subregion" ]

\* the planes a view is cut from: a luma plane and a 4:2:0 chroma plane, each
\* with a guard band left of and above the visible origin
PlaneCfgs ==
  { [stride |-> 12, alloc_height |-> 11, xorigin |-> 2, yorigin |-> 1,
     xdec |-> 0, ydec |-> 0],
    [stride |-> 10, alloc_height |-> 9, xorigin |-> 1, yorigin |-> 1,
     xdec |-> 1, ydec |-> 1] }

NewRects(cfg) ==
  { MkRect(x, y, w, h) :
      x \in {-(cfg.xorigin + 1), 0, 4},
      y \in {-(cfg.yorigin + 1), 0},
      w \in {4, MaxExtent}, h \in {MaxExtent} }

Bo(x, y) == [x |-> x, y |-> y]

Areas ==
  { [kind |-> "Rect", x |-> x, y |-> 0, width |-> w, height |-> 4] :
      x \in {-1, 0, 4}, w \in {4, MaxExtent} }
  \cup { [kind |-> "StartingAt", x |-> x, y |-> y] :
           x \in {0, 4, MaxExtent + 1}, y \in {0, 4} }
  \cup { [kind |-> "BlockRect", bo |-> bo, width |-> 4, height |-> 4] :
           bo \in {Bo(0, 0), Bo(1, 0), Bo(2, 1)} }
  \cup { [kind |-> "BlockStartingAt", bo |-> bo] : bo \in {Bo(1, 1), Bo(2, 0)} }

\* no rows iterator has been taken
NoIter == [live |-> FALSE]

\* no row has been indexed
NoRow == [taken |-> FALSE]

IdleRegion ==
  /\ plane_cfg = <<>>
  /\ views = <<>>
  /\ rpanic = FALSE
  /\ iter = NoIter
  /\ row = NoRow

InitRegion ==
  /\ plane_cfg \in PlaneCfgs
  /\ views = <<>>
  /\ rpanic = FALSE
  /\ iter = NoIter
  /\ row = NoRow

\* PlaneRegion::new / PlaneRegionMut::new
RegionNew(rect, isMut) ==
  /\ ~rpanic
  /\ views = <<>>
  /\ IF NewAsserts(plane_cfg, rect)
       THEN /\ views' = << [rect |-> rect,
                            data |-> NewOrigin(plane_cfg, rect),
                            mut  |-> isMut,
                            via  |-> "new"] >>
            /\ UNCHANGED rpanic
       ELSE /\ rpanic' = TRUE
            /\ UNCHANGED views
  /\ UNCHANGED <<plane_cfg, iter, row, nonRegionVars>>

\* PlaneRegion::subregion (on either kind of view): the result is a PlaneRegion
Subregion(area) ==
  /\ ~rpanic
  /\ ~iter.live
  /\ ~row.taken
  /\ Len(views) \in 1 .. MaxDepth - 1
  /\ LET parent == Last(views)
         rect == ToRect(area, plane_cfg.xdec, plane_cfg.ydec,
                        parent.rect.width, parent.rect.height)
     IN  IF SubregionAsserts(parent, rect)
           THEN /\ views' = Append(views,
                                   SubregionView(parent, rect, plane_cfg, FALSE))
                /\ UNCHANGED rpanic
           ELSE /\ rpanic' = TRUE
                /\ UNCHANGED views
  /\ UNCHANGED <<plane_cfg, iter, row, nonRegionVars>>

\* PlaneRegionMut::subregion_mut: only on a mutable view
SubregionMut(area) ==
  /\ ~rpanic
  /\ ~iter.live
  /\ ~row.taken
  /\ Len(views) \in 1 .. MaxDepth - 1
  /\ Last(views).mut
  /\ LET parent == Last(views)
         rect == ToRect(area, plane_cfg.xdec, plane_cfg.ydec,
                        parent.rect.width, parent.rect.height)
     IN  IF SubregionAsserts(parent, rect)
           THEN /\ views' = Append(views,
                                   SubregionView(parent, rect, plane_cfg, TRUE))
                /\ UNCHANGED rpanic
           ELSE /\ rpanic' = TRUE
                /\ UNCHANGED views
  /\ UNCHANGED <<plane_cfg, iter, row, nonRegionVars>>

\* PlaneRegionMut::as_const: the same data and rect, as a PlaneRegion
AsConst ==
  /\ ~rpanic
  /\ ~iter.live
  /\ ~row.taken
  /\ Len(views) \in 1 .. MaxDepth - 1
  /\ Last(views).mut
  /\ views' = Append(views, [Last(views) EXCEPT !.mut = FALSE, !.via = "as_const"])
  /\ UNCHANGED <<plane_cfg, rpanic, iter, row, nonRegionVars>>

\* region[index] / region[index] = ..: Index::index, IndexMut::index_mut on
\* the innermost view, which stays borrowed by the row
IndexRow(index) ==
  /\ ~rpanic
  /\ ~iter.live
  /\ ~row.taken
  /\ views # << >>
  /\ IF index < Last(views).rect.height
       THEN /\ row' = [ taken |-> TRUE, index |-> index,
                        ptr |-> Last(views).data + index * plane_cfg.stride,
                        len |-> Last(views).rect.width ]
            /\ UNCHANGED rpanic
       ELSE /\ rpanic' = TRUE
            /\ row' = [taken |-> TRUE, index |-> index]
  /\ UNCHANGED <<plane_cfg, views, iter, nonRegionVars>>

\* rows_iter (on either kind of view) / rows_iter_mut (on a mutable view) of
\* the innermost view, which stays borrowed while the iterator is in use.
\* `rows` is the history of the slices handed out: (pointer, length).
RowsIterNew(isMut) ==
  /\ ~rpanic
  /\ ~iter.live
  /\ ~row.taken
  /\ views # << >>
  /\ isMut => Last(views).mut
  /\ iter' = [ live |-> TRUE, mut |-> isMut,
               data |-> Last(views).data,
               stride |-> plane_cfg.stride,
               width |-> Last(views).rect.width,
               remaining |-> Last(views).rect.height,
               rows |-> << >>, none |-> FALSE ]
  /\ UNCHANGED <<plane_cfg, views, rpanic, row, nonRegionVars>>

\* RowsIter::next / RowsIterMut::next, called until it returns None
RowsIterNext ==
  /\ iter.live
  /\ ~iter.none
  /\ Len(iter.rows) < MaxExtent + MaxOverrun
  /\ iter' = IF iter.remaining > 0
             THEN [iter EXCEPT
                     !.data = @ + iter.stride,
                     !.rows = Append(@, [ptr |-> iter.data, len |-> iter.width])]
             ELSE [iter EXCEPT !.none = TRUE]
  /\ UNCHANGED <<plane_cfg, views, rpanic, row, nonRegionVars>>

\* RowsIter::size_hint / RowsIterMut::size_hint
SizeHint(it) == << it.remaining, it.remaining >>

NextRegion ==
  \/ \E rect \in NewRects(plane_cfg), isMut \in BOOLEAN : RegionNew(rect, isMut)
  \/ \E area \in Areas : Subregion(area)
  \/ \E area \in Areas : SubregionMut(area)
  \/ AsConst
  \/ \E index \in 0 .. MaxExtent + 1 : IndexRow(index)
  \/ \E isMut \in BOOLEAN : RowsIterNew(isMut)
  \/ RowsIterNext

(***************************************************************************)
(* Claims on PlaneRegion                                                   *)
(***************************************************************************)

RectInside(s, r) ==
  /\ s.x >= r.x
  /\ s.y >= r.y
  /\ s.x + s.width <= r.x + r.width
  /\ s.y + s.height <= r.y + r.height

\* C1: every region returned by subregion / subregion_mut lies entirely inside
\* the region it was cut from, hence inside every ancestor of the chain.
\* (The code asserts only that the requested origin is inside the parent.)
C1_SubregionInsideAncestors ==
  \A k \in 2 .. Len(views) : \A j \in 1 .. k - 1 :
    RectInside(views[k].rect, views[j].rect)

\* C2: a region returned by PlaneRegion::new / PlaneRegionMut::new fits the
\* plane's storage: each of its cells maps to a storage column in [0, stride)
\* and a storage row in [0, alloc_height); any other rect fails an assertion.
\* (The code asserts only the right and bottom edge.)
C2_NewFitsStorage ==
  Len(views) >= 1 =>
    LET r == views[1].rect
    IN  \A x \in r.x .. r.x + r.width - 1, y \in r.y .. r.y + r.height - 1 :
          /\ plane_cfg.xorigin + x \in 0 .. plane_cfg.stride - 1
          /\ plane_cfg.yorigin + y \in 0 .. plane_cfg.alloc_height - 1

\* ---- C25 ----------------------------------------------------------------

\* the storage row and column of a storage index
StorageRow(index) == index \div plane_cfg.stride

StorageCol(index) == index % plane_cfg.stride

\* C25: the data pointer of every region made by new and any chain of
\* subregion, subregion_mut and as_const addresses storage index
\* (yorigin + rect.y) * stride + xorigin + rect.x; region[i] for
\* i < rect.height is the rect.width samples of storage row
\* yorigin + rect.y + i from column xorigin + rect.x on, and indexing with
\* i >= rect.height fails an assertion.
C25_RegionRowsAreStorageRows ==
  /\ \A k \in 1 .. Len(views) : views[k].data = NewOrigin(plane_cfg, views[k].rect)
  /\ row.taken =>
       LET r == Last(views).rect
       IN  IF row.index >= r.height THEN rpanic
           ELSE /\ ~rpanic
                /\ row.len = r.width
                /\ \A j \in 0 .. Min(row.len, plane_cfg.stride + 1) - 1 :
                     /\ StorageRow(row.ptr + j) = plane_cfg.yorigin + r.y + row.index
                     /\ StorageCol(row.ptr + j) = plane_cfg.xorigin + r.x + j

\* ---- C14, C17 -----------------------------------------------------------

\* the view a live iterator was taken from
Iterated == Last(views)

\* the slice that is row i (from 0) of a view: (pointer, length)
RegionRow(v, i) == [ptr |-> v.data + i * plane_cfg.stride, len |-> v.rect.width]

\* C17: iterating rows_iter() or rows_iter_mut() of a region of height h
\* yields exactly h rows, row i being the rect.width-wide slice at region
\* row i, and then None; size_hint is always the number of rows still to be
\* yielded, so no yielded row lies below the region's last row.
C17_RowsIterYieldsHeightRows ==
  iter.live =>
    /\ Len(iter.rows) <= Iterated.rect.height
    /\ \A k \in 1 .. Len(iter.rows) : iter.rows[k] = RegionRow(Iterated, k - 1)
    /\ SizeHint(iter)[1] = Iterated.rect.height - Len(iter.rows)
    /\ iter.none => Len(iter.rows) = Iterated.rect.height

\* C14: the rows handed out by one rows_iter_mut are rows of the region (so
\* inside it) and no two of them share a cell; no two usable mutable views
\* cover overlapping cells of the plane.
C14_MutRowsDisjointInRegion ==
  (iter.live /\ iter.mut) =>
    /\ \A k \in 1 .. Len(iter.rows) :
         \E i \in 0 .. Iterated.rect.height - 1 :
           iter.rows[k] = RegionRow(Iterated, i)
    /\ \A j, k \in 1 .. Len(iter.rows) :
         j < k => iter.rows[j].ptr + iter.rows[j].len <= iter.rows[k].ptr

(***************************************************************************)
(* BlocksRegionMut                                                         *)
(***************************************************************************)

\* bounds of the block-grid model: the size of the frame's grid, in 4x4 cells
FrameCols == 18
FrameRows == 17

\* a superblock is MAX_MIB_SIZE cells wide and high
MAX_MIB_SIZE == 16
SUPERBLOCK_TO_BLOCK_SHIFT == 4

BlockSizes ==
  {"BLOCK_4X4", "BLOCK_4X8", "BLOCK_8X4", "BLOCK_8X8", "BLOCK_16X16", "BLOCK_64X64"}

\* BlockSize::width_mi
WidthMi(bsize) ==
  CASE bsize = "BLOCK_4X4" -> 1 [] bsize = "BLOCK_4X8" -> 1
    [] bsize = "BLOCK_8X4" -> 2 [] bsize = "BLOCK_8X8" -> 2
    [] bsize = "BLOCK_16X16" -> 4 [] bsize = "BLOCK_32X32" -> 8
    [] bsize = "BLOCK_64X64" -> 16

\* BlockSize::height_mi
HeightMi(bsize) ==
  CASE bsize = "BLOCK_4X4" -> 1 [] bsize = "BLOCK_4X8" -> 2
    [] bsize = "BLOCK_8X4" -> 1 [] bsize = "BLOCK_8X8" -> 2
    [] bsize = "BLOCK_16X16" -> 4 [] bsize = "BLOCK_32X32" -> 8
    [] bsize = "BLOCK_64X64" -> 16

\* SuperBlockOffset::block_offset(0, 0)
SbBlockOffset(sbo) ==
  Bo(Shl(sbo.x, SUPERBLOCK_TO_BLOCK_SHIFT), Shl(sbo.y, SUPERBLOCK_TO_BLOCK_SHIFT))

BlockFields ==
  {"mode", "bsize", "n4_w", "n4_h", "txsize", "skip", "segmentation_idx",
   "ref_frames", "mv", "cdef_index"}

NoRegion == [none |-> TRUE]

NoCall == [op |-> "none"]

\* the grid the frame holds before the view is used: every cell differs from
\* its neighbours in every field, and no field holds a value a writer is given
InitialBlocks(seed) ==
  [ i \in 0 .. FrameCols * FrameRows - 1 |->
      [ f \in BlockFields |->
          IF f = "bsize"
            THEN << "BLOCK_4X16", "BLOCK_16X4", "BLOCK_INVALID" >>[1 + ((i + seed) % 3)]
            ELSE (i + seed) % 3 ] ]

IdleBlocks ==
  /\ frame_blocks = <<>>
  /\ blocks_pre = <<>>
  /\ breg = NoRegion
  /\ bcall = NoCall
  /\ bstatus = "ok"

InitBlocks ==
  /\ frame_blocks \in { InitialBlocks(seed) : seed \in 0 .. 1 }
  /\ blocks_pre = frame_blocks
  /\ breg = NoRegion
  /\ bcall = NoCall
  /\ bstatus = "ok"

\* BlocksRegionMut::new: data addresses frame_blocks[y][x], which the frame's
\* own indexing bounds-checks
BlocksNew(x, y, cols, rows) ==
  /\ bstatus = "ok"
  /\ breg = NoRegion
  /\ IF y < FrameRows /\ x < FrameCols
       THEN /\ breg' = [data |-> y * FrameCols + x, x |-> x, y |-> y,
                        cols |-> cols, rows |-> rows, stride |-> FrameCols]
            /\ UNCHANGED bstatus
       ELSE /\ bstatus' = "panic"
            /\ UNCHANGED <<breg, nonBlocksVars>>
  /\ UNCHANGED <<frame_blocks, blocks_pre, bcall, nonBlocksVars>>

\* IndexMut<usize> then the slice's own bounds check: self[row][col]
CellInRegion(region, cell) == cell.row < region.rows /\ cell.col < region.cols

CellIndex(region, cell) == region.data + cell.row * region.stride + cell.col

\* the closure of a writer, applied to one Block
ApplyWrite(block, upd) ==
  [ f \in DOMAIN block |-> IF f \in DOMAIN upd THEN upd[f] ELSE block[f] ]

\* a loop `for cell in cells { f(&mut self[cell.row][cell.col]) }`: the cells
\* are visited in order and the loop ends at the first failed bounds check
FillCells(fb, region, cells, upd) ==
  LET bad == { k \in 1 .. Len(cells) : ~CellInRegion(region, cells[k]) }
      stop == IF bad = {} THEN Len(cells) + 1
              ELSE CHOOSE k \in bad : \A j \in bad : k <= j
      hit == { CellIndex(region, cells[k]) : k \in 1 .. stop - 1 }
  IN  [ fb     |-> [ i \in DOMAIN fb |->
                       IF i \in hit THEN ApplyWrite(fb[i], upd) ELSE fb[i] ],
        status |-> IF bad = {} THEN "ok" ELSE "panic" ]

\* for_each with the block's width and height exchanged
ForEachCellsTransposed(bo, bsize) ==
  LET bw == HeightMi(bsize)
      bh == WidthMi(bsize)
  IN  [ k \in 1 .. bw * bh |->
          [row |-> bo.y + ((k - 1) \div bw), col |-> bo.x + ((k - 1) % bw)] ]

\* the cells BlocksRegionMut::for_each visits, in its order
ForEachCells(bo, bsize) ==
  LET bw == WidthMi(bsize)
      bh == HeightMi(bsize)
  IN  [ k \in 1 .. bw * bh |->
          [row |-> bo.y + ((k - 1) \div bw), col |-> bo.x + ((k - 1) % bw)] ]

\* the closure each range-fill writer hands to for_each
WriterUpdate(writer, bsize, v) ==
  CASE writer = "set_mode" -> [mode |-> v]
    [] writer = "set_block_size" ->
         [bsize |-> bsize, n4_w |-> WidthMi(bsize), n4_h |-> HeightMi(bsize)]
    [] writer = "set_tx_size" -> [txsize |-> v]
    [] writer = "set_skip" -> [skip |-> v]
    [] writer = "set_segmentation_idx" -> [segmentation_idx |-> v]
    [] writer = "set_ref_frames" -> [ref_frames |-> v]
    [] writer = "set_motion_vectors" -> [mv |-> v]

Writers ==
  {"set_mode", "set_block_size", "set_tx_size", "set_skip",
   "set_segmentation_idx", "set_ref_frames", "set_motion_vectors"}

\* one call of a range-fill writer
RangeFill(writer, bo, bsize, v) ==
  /\ bstatus = "ok"
  /\ breg # NoRegion
  /\ bcall = NoCall
  /\ LET r == FillCells(frame_blocks, breg, ForEachCells(bo, bsize),
                        WriterUpdate(writer, bsize, v))
     IN  /\ frame_blocks' = r.fb
         /\ bstatus' = r.status
  /\ blocks_pre' = frame_blocks
  /\ bcall' = [op |-> writer, bo |-> bo, bsize |-> bsize, v |-> v]
  /\ UNCHANGED <<breg, nonBlocksVars>>

\* set_cdef without the clip to the region's bottom-right corner
CdefCellsUnclipped(region, sbo) ==
  LET bo == SbBlockOffset(sbo)
      w == MAX_MIB_SIZE
      h == MAX_MIB_SIZE
  IN  [ k \in 1 .. w * h |->
          [row |-> bo.y + ((k - 1) \div w), col |-> bo.x + ((k - 1) % w)] ]

\* the cells set_cdef visits: `for y in bo.y..bh { for x in bo.x..bw`
CdefCells(region, sbo) ==
  LET bo == SbBlockOffset(sbo)
      bw == Min(bo.x + MAX_MIB_SIZE, region.cols)
      bh == Min(bo.y + MAX_MIB_SIZE, region.rows)
      w == IF bw > bo.x THEN bw - bo.x ELSE 0
      h == IF bh > bo.y THEN bh - bo.y ELSE 0
  IN  [ k \in 1 .. w * h |->
          [row |-> bo.y + ((k - 1) \div w), col |-> bo.x + ((k - 1) % w)] ]

\* BlocksRegionMut::set_cdef
SetCdef(sbo, v) ==
  /\ bstatus = "ok"
  /\ breg # NoRegion
  /\ bcall = NoCall
  /\ LET r == FillCells(frame_blocks, breg, CdefCells(breg, sbo),
                        [cdef_index |-> v])
     IN  /\ frame_blocks' = r.fb
         /\ bstatus' = r.status
  /\ blocks_pre' = frame_blocks
  /\ bcall' = [op |-> "set_cdef", sbo |-> sbo, v |-> v]
  /\ UNCHANGED <<breg, nonBlocksVars>>

\* BlocksRegionMut::get_cdef, called right after set_cdef with the same sbo
GetCdef ==
  /\ bstatus = "ok"
  /\ bcall.op = "set_cdef"
  /\ LET bo == SbBlockOffset(bcall.sbo)
         cell == [row |-> bo.y, col |-> bo.x]
     IN  IF CellInRegion(breg, cell)
           THEN /\ bcall' = [op |-> "get_cdef", sbo |-> bcall.sbo, v |-> bcall.v,
                             ret |-> frame_blocks[CellIndex(breg, cell)].cdef_index]
                /\ UNCHANGED bstatus
           ELSE /\ bstatus' = "panic"
                /\ bcall' = [op |-> "get_cdef", sbo |-> bcall.sbo, v |-> bcall.v,
                              ret |-> "panic"]
  /\ UNCHANGED <<frame_blocks, blocks_pre, breg, nonBlocksVars>>

\* the tiles the view is built for: the whole frame, a tile off the origin, a
\* tile smaller than a superblock, a tile that starts right of the frame, a
\* tile as wide as the frame that starts off the origin
RegionArgs ==
  { <<0, 0, FrameCols, FrameRows>>, <<1, 1, FrameCols - 1, FrameRows - 1>>,
    <<2, 1, 5, 4>>, <<FrameCols, 0, 1, 1>>, <<2, 1, FrameCols, 4>> }

WriterOffsets == { Bo(0, 0), Bo(1, 2), Bo(3, 1) }

WriterValues == {7, 8}

SuperBlockOffsets == { Bo(0, 0), Bo(1, 0), Bo(0, 1), Bo(1, 1) }

NextBlocks ==
  \/ \E a \in RegionArgs : BlocksNew(a[1], a[2], a[3], a[4])
  \/ \E w \in Writers, bo \in WriterOffsets, bsize \in BlockSizes,
        v \in WriterValues : RangeFill(w, bo, bsize, v)
  \/ \E sbo \in SuperBlockOffsets, v \in WriterValues : SetCdef(sbo, v)
  \/ GetCdef

(***************************************************************************)
(* Claims on BlocksRegionMut                                               *)
(***************************************************************************)

\* the storage index of the cell at frame coordinates (fx, fy)
FrameCellIndex(fx, fy) == fy * FrameCols + fx

\* the fields a range-fill writer is documented to write
WrittenFields(writer) ==
  CASE writer = "set_mode" -> {"mode"}
    [] writer = "set_block_size" -> {"bsize", "n4_w", "n4_h"}
    [] writer = "set_tx_size" -> {"txsize"}
    [] writer = "set_skip" -> {"skip"}
    [] writer = "set_segmentation_idx" -> {"segmentation_idx"}
    [] writer = "set_ref_frames" -> {"ref_frames"}
    [] writer = "set_motion_vectors" -> {"mv"}

\* the value field f holds after writer(bo, bsize, v)
WrittenValue(f, bsize, v) ==
  CASE f = "bsize" -> bsize
    [] f = "n4_w" -> WidthMi(bsize)
    [] f = "n4_h" -> HeightMi(bsize)
    [] OTHER -> v

FootprintInside(region, bo, bsize) ==
  /\ bo.x + WidthMi(bsize) <= region.cols
  /\ bo.y + HeightMi(bsize) <= region.rows

\* the frame cells of the footprint of (bo, bsize) in the region
FootprintIndexes(region, bo, bsize) ==
  { FrameCellIndex(region.x + bo.x + dx, region.y + bo.y + dy) :
      dx \in 0 .. WidthMi(bsize) - 1, dy \in 0 .. HeightMi(bsize) - 1 }

\* C9: a range-fill writer called with a footprint inside the region leaves v
\* in the written field of every cell of the footprint, leaves every other
\* field of those cells and every cell outside the footprint as it was.
C9_RangeFillFrame ==
  (bcall.op \in Writers /\ FootprintInside(breg, bcall.bo, bcall.bsize)) =>
    /\ bstatus = "ok"
    /\ \A i \in DOMAIN frame_blocks :
         IF i \in FootprintIndexes(breg, bcall.bo, bcall.bsize)
           THEN \A f \in BlockFields :
                  frame_blocks[i][f] =
                    IF f \in WrittenFields(bcall.op)
                      THEN WrittenValue(f, bcall.bsize, bcall.v)
                      ELSE blocks_pre[i][f]
           ELSE frame_blocks[i] = blocks_pre[i]

\* a non-square block was written off the origin of a tile that is itself off
\* the origin of the frame, over cells that held something else
C9_Witness ==
  /\ bcall.op = "set_block_size"
  /\ bcall.bsize = "BLOCK_4X8"
  /\ bcall.bo = Bo(3, 1)
  /\ breg.x = 2 /\ breg.y = 1
  /\ bstatus = "ok"
  /\ frame_blocks # blocks_pre

\* the frame cells set_cdef(sbo, .) is documented to write
CdefIndexes(region, sbo) ==
  LET bo == SbBlockOffset(sbo)
  IN  { FrameCellIndex(region.x + x, region.y + y) :
          x \in bo.x .. Min(bo.x + MAX_MIB_SIZE, region.cols) - 1,
          y \in bo.y .. Min(bo.y + MAX_MIB_SIZE, region.rows) - 1 }

\* C10: set_cdef(sbo, v) writes cdef_index = v in exactly the cells of the
\* superblock that lie inside the region and fails no bounds check, also when
\* the superblock extends past the right or bottom edge; get_cdef(sbo) right
\* after it returns v, for a superblock whose top-left cell is in the region.
C10_SetCdefClipped ==
  /\ bcall.op = "set_cdef" =>
       /\ bstatus = "ok"
       /\ \A i \in DOMAIN frame_blocks :
            frame_blocks[i] =
              IF i \in CdefIndexes(breg, bcall.sbo)
                THEN [blocks_pre[i] EXCEPT !.cdef_index = bcall.v]
                ELSE blocks_pre[i]
  /\ ( /\ bcall.op = "get_cdef"
       /\ SbBlockOffset(bcall.sbo).x < breg.cols
       /\ SbBlockOffset(bcall.sbo).y < breg.rows ) =>
       /\ bstatus = "ok"
       /\ bcall.ret = bcall.v

\* the superblock at (1, 1) of a tile 17 x 16 cells large: one cell of it is
\* inside the tile, and get_cdef has returned
C10_Witness ==
  /\ bcall.op = "get_cdef"
  /\ bcall.sbo = Bo(1, 0)
  /\ breg.cols = FrameCols - 1
  /\ breg.cols < SbBlockOffset(bcall.sbo).x + MAX_MIB_SIZE
  /\ bstatus = "ok"
  /\ bcall.ret = bcall.v
  /\ frame_blocks # blocks_pre

\* ---- C24 ----------------------------------------------------------------

\* C24: every view the constructor returns has x + cols <= frame cols and
\* y + rows <= frame rows, so every cell reached by indexing it with
\* row < rows and col < cols lies inside the frame grid, in grid row y + row
\* at grid column x + col.
C24_ViewInsideFrame ==
  breg # NoRegion =>
    /\ breg.x + breg.cols <= FrameCols
    /\ breg.y + breg.rows <= FrameRows
    /\ \A r \in 0 .. breg.rows - 1, c \in 0 .. breg.cols - 1 :
         /\ CellIndex(breg, [row |-> r, col |-> c]) \in DOMAIN frame_blocks
         /\ CellIndex(breg, [row |-> r, col |-> c]) \div FrameCols = breg.y + r
         /\ CellIndex(breg, [row |-> r, col |-> c]) % FrameCols = breg.x + c

(***************************************************************************)
(* write_uncompressed_header                                               *)
(***************************************************************************)

\* bound of the header model: frames of 1 .. MaxSmallSb superblocks a side are
\* all tried, next to the sizes around the tile_cols and the 16-bit thresholds
MaxSmallSb == 2

\* FrameInvariants::new
FrameInvariantsNew(width, height, qindex) ==
  [ qindex |-> qindex, width |-> width, height |-> height,
    sb_width |-> (width + 63) \div 64, sb_height |-> (height + 63) \div 64,
    number |-> 0, ftype |-> "KEY", show_existing_frame |-> FALSE ]

\* Sequence::new
SequenceNew == [profile |-> 0]

AsU16(v) == v % 65536

AsU8(v) == v % 256

HWrite(bits, value) == [op |-> "write", bits |-> bits, value |-> value]

HWriteBit(b) == [op |-> "write_bit", bit |-> IF b THEN 1 ELSE 0]

HByteAlign == [op |-> "byte_align"]

\* write_uncompressed_header with the tile_cols test off by one (>= 255)
HeaderStmtsTileColsOffByOne(sequence, fi) ==
  << HWrite(2, 2), HWrite(2, sequence.profile) >>
  \o IF fi.show_existing_frame
       THEN << HWriteBit(TRUE), HWrite(3, 0), HByteAlign >>
       ELSE << HWriteBit(FALSE), HWriteBit(FALSE), HWriteBit(TRUE),
               HWriteBit(TRUE), HWrite(1, 0), HWrite(3, 0), HWrite(1, 0),
               HWrite(16, AsU16(fi.sb_width * 64 - 1)),
               HWrite(16, AsU16(fi.sb_height * 64 - 1)),
               HWriteBit(FALSE), HWriteBit(FALSE), HWrite(3, 0), HWrite(6, 0),
               HWrite(3, 0), HWriteBit(FALSE), HWrite(8, AsU8(fi.qindex)),
               HWriteBit(FALSE), HWriteBit(FALSE), HWriteBit(FALSE),
               HWriteBit(FALSE), HWrite(2, 0), HWrite(2, 0),
               HWrite(7, 0), HWrite(7, 0),
               HWriteBit(FALSE), HWrite(6, 0), HWriteBit(FALSE), HWrite(2, 0),
               HWriteBit(TRUE) >>
            \o (IF fi.sb_width * 64 - 1 >= 255 THEN << HWrite(1, 0) >> ELSE << >>)
            \o << HWrite(1, 0), HWriteBit(TRUE), HWrite(2, 0), HByteAlign >>

\* the BitWriter calls write_uncompressed_header makes, in program order
HeaderStmts(sequence, fi) ==
  << HWrite(2, 2), HWrite(2, sequence.profile) >>
  \o IF fi.show_existing_frame
       THEN << HWriteBit(TRUE), HWrite(3, 0), HByteAlign >>
       ELSE << HWriteBit(FALSE), HWriteBit(FALSE), HWriteBit(TRUE),
               HWriteBit(TRUE), HWrite(1, 0), HWrite(3, 0), HWrite(1, 0),
               HWrite(16, AsU16(fi.sb_width * 64 - 1)),
               HWrite(16, AsU16(fi.sb_height * 64 - 1)),
               HWriteBit(FALSE), HWriteBit(FALSE), HWrite(3, 0), HWrite(6, 0),
               HWrite(3, 0), HWriteBit(FALSE), HWrite(8, AsU8(fi.qindex)),
               HWriteBit(FALSE), HWriteBit(FALSE), HWriteBit(FALSE),
               HWriteBit(FALSE), HWrite(2, 0), HWrite(2, 0),
               HWrite(7, 0), HWrite(7, 0),
               HWriteBit(FALSE), HWrite(6, 0), HWriteBit(FALSE), HWrite(2, 0),
               HWriteBit(TRUE) >>
            \o (IF fi.sb_width * 64 - 1 > 256 THEN << HWrite(1, 0) >> ELSE << >>)
            \o << HWrite(1, 0), HWriteBit(TRUE), HWrite(2, 0), HByteAlign >>

\* the n low bits of value, least significant first (a BitWriter<LE>)
RECURSIVE BitsLE(_, _)
BitsLE(n, value) ==
  IF n = 0 THEN << >>
  ELSE << value % 2 >> \o BitsLE(n - 1, value \div 2)

\* the n low bits of value, most significant first (BitWriter<BE>)
RECURSIVE BitsBE(_, _)
BitsBE(n, value) ==
  IF n = 0 THEN << >>
  ELSE Append(BitsBE(n - 1, value \div 2), value % 2)

\* the value of a sequence of bits read most significant first
RECURSIVE BitsValue(_)
BitsValue(bits) ==
  IF bits = << >> THEN 0
  ELSE 2 * BitsValue(SubSeq(bits, 1, Len(bits) - 1)) + bits[Len(bits)]

\* the BitWriter takes bits into its queue and writes a byte whenever the
\* queue holds eight: the result of pushing `bits` on queue q and packet pk
RECURSIVE PushBits(_, _, _)
PushBits(q, pk, bits) ==
  IF bits = << >> THEN [uch |-> q, packet |-> pk]
  ELSE LET q1 == Append(q, bits[1])
       IN  IF Len(q1) = 8
             THEN PushBits(<< >>, Append(pk, BitsValue(q1)), Tail(bits))
             ELSE PushBits(q1, pk, Tail(bits))

\* BitWriter::byte_align: zero bits until the queue is empty
AlignBits(q) == [ i \in 1 .. ((8 - Len(q)) % 8) |-> 0 ]

HeaderWidths == {64, 100, 256, 257, 65536, 65537} \cup { 64 * n : n \in 1 .. MaxSmallSb }

HeaderHeights == {65536, 65537} \cup { 64 * n : n \in 1 .. MaxSmallSb }

Qindexes == {0, 100, 255}

IdleHeader ==
  /\ hfi = << >>
  /\ uch = << >>
  /\ packet = << >>
  /\ hpc = 0

InitHeader ==
  /\ \E w \in HeaderWidths, h \in HeaderHeights, q \in Qindexes, show \in BOOLEAN :
       hfi = [ FrameInvariantsNew(w, h, q) EXCEPT !.show_existing_frame = show ]
  /\ uch = << >>
  /\ packet = << >>
  /\ hpc = 1

HeaderRunning == hpc \in 1 .. Len(HeaderStmts(SequenceNew, hfi))

HeaderStmt == HeaderStmts(SequenceNew, hfi)[hpc]

\* uch.write(bits, value)
UchWrite ==
  /\ HeaderRunning
  /\ HeaderStmt.op = "write"
  /\ LET r == PushBits(uch, packet, BitsBE(HeaderStmt.bits, HeaderStmt.value))
     IN  uch' = r.uch /\ packet' = r.packet
  /\ hpc' = hpc + 1
  /\ UNCHANGED <<hfi, nonHeaderVars>>

\* uch.write_bit(bit)
UchWriteBit ==
  /\ HeaderRunning
  /\ HeaderStmt.op = "write_bit"
  /\ LET r == PushBits(uch, packet, << HeaderStmt.bit >>)
     IN  uch' = r.uch /\ packet' = r.packet
  /\ hpc' = hpc + 1
  /\ UNCHANGED <<hfi, nonHeaderVars>>

\* uch.byte_align(), the last call on either path
UchByteAlign ==
  /\ HeaderRunning
  /\ HeaderStmt.op = "byte_align"
  /\ LET r == PushBits(uch, packet, AlignBits(uch))
     IN  uch' = r.uch /\ packet' = r.packet
  /\ hpc' = hpc + 1
  /\ UNCHANGED <<hfi, nonHeaderVars>>

NextHeader ==
  \/ UchWrite
  \/ UchWriteBit
  \/ UchByteAlign

(***************************************************************************)
(* Claims on write_uncompressed_header                                     *)
(***************************************************************************)

HField(bits, value) == [bits |-> bits, value |-> value]

\* the field table of the uncompressed header for show_existing_frame = 0:
\* (bits, value) in table order
HeaderTable(fi) ==
  << HField(2, 2),                        \* frame type
     HField(2, 0),                        \* profile
     HField(1, 0),                        \* show_existing_frame
     HField(1, 0),                        \* keyframe flag
     HField(1, 1),                        \* show_frame
     HField(1, 1),                        \* error_resilient
     HField(1, 0),                        \* use_frame_ids
     HField(3, 0),                        \* colorspace
     HField(1, 0),                        \* color_range
     HField(16, fi.sb_width * 64 - 1),    \* width - 1
     HField(16, fi.sb_height * 64 - 1),   \* height - 1
     HField(1, 0),                        \* scaling
     HField(1, 0),                        \* screen_content_tools
     HField(3, 0),                        \* frame_context_idx
     HField(6, 0),                        \* loop_filter_level
     HField(3, 0),                        \* loop_filter_sharpness
     HField(1, 0),                        \* lf_deltas_enabled
     HField(8, fi.qindex),                \* qindex
     HField(1, 0), HField(1, 0), HField(1, 0),  \* y_dc / uv_dc / uv_ac delta_q
     HField(1, 0),                        \* segmentation
     HField(2, 0),                        \* cdef_damping
     HField(2, 0),                        \* cdef_bits
     HField(7, 0),                        \* cdef_y_strength
     HField(7, 0),                        \* cdef_uv_strength
     HField(1, 0),                        \* delta_q
     HField(6, 0),                        \* loop_restoration
     HField(1, 0),                        \* tx_mode_select
     HField(2, 0),                        \* tx_mode
     HField(1, 1) >>                      \* reduced_tx
  \o (IF fi.sb_width * 64 - 1 > 256 THEN << HField(1, 0) >> ELSE << >>)  \* tile_cols
  \o << HField(1, 0),                     \* tile_rows
        HField(1, 1),                     \* lf_across_tiles
        HField(2, 0) >>                   \* tile_size_bytes

\* the bits of a byte sequence, each byte most significant bit first
BytesToBits(bytes) ==
  [ i \in 1 .. 8 * Len(bytes) |->
      (bytes[1 + ((i - 1) \div 8)] \div (2 ^ (7 - ((i - 1) % 8)))) % 2 ]

RECURSIVE TableBitsUpTo(_, _)
TableBitsUpTo(table, k) ==
  IF k = 0 THEN 0 ELSE TableBitsUpTo(table, k - 1) + table[k].bits

\* reading `bytes` as a bit stream, most significant bit first, gives the
\* fields of `table` in order, then only zero bits up to the byte boundary
DecodesAs(bytes, table) ==
  LET bits == BytesToBits(bytes)
      total == TableBitsUpTo(table, Len(table))
  IN  /\ Len(bits) = 8 * ((total + 7) \div 8)
      /\ \A k \in 1 .. Len(table) :
           LET off == TableBitsUpTo(table, k - 1)
           IN  BitsValue(SubSeq(bits, off + 1, off + table[k].bits))
                 = table[k].value
      /\ \A i \in total + 1 .. Len(bits) : bits[i] = 0

HeaderReturned == hpc = Len(HeaderStmts(SequenceNew, hfi)) + 1

S5Input ==
  /\ hfi.width = 128 /\ hfi.height = 64 /\ hfi.qindex = 100
  /\ ~hfi.show_existing_frame

\* C5 as stated: for width = 128, height = 64, qindex = 100 and
\* show_existing_frame = false the header is a 16-byte sequence, the one the
\* field table determines.
C5_HeaderIs16Bytes ==
  (HeaderReturned /\ S5Input) =>
    /\ Len(packet) = 16
    /\ DecodesAs(packet, HeaderTable(hfi))

\* C5, amended: for that input the header is the 14-byte sequence the field
\* table determines (105 bits of fields and 7 zero bits of padding).
C5_HeaderIs14Bytes ==
  (HeaderReturned /\ S5Input) =>
    /\ Len(packet) = 14
    /\ DecodesAs(packet, HeaderTable(hfi))
    /\ packet = << 131, 0, 3, 248, 1, 248, 0, 6, 64, 0, 0, 0, 10, 0 >>

C5_Witness == HeaderReturned /\ S5Input /\ Len(packet) = 14

\* C6 as stated: for show_existing_frame = false and every qindex in
\* [0, 255], sb_width and sb_height the header holds exactly the fields of the
\* table, in order and most significant bit first, the tile_cols bit exactly
\* when sb_width * 64 - 1 > 256, then zero bits up to the byte boundary.
C6_HeaderMatchesTable ==
  (HeaderReturned /\ ~hfi.show_existing_frame) =>
    DecodesAs(packet, HeaderTable(hfi))

\* the frame sizes whose width - 1 and height - 1 fit the 16-bit fields
FitsHeaderFields(fi) ==
  /\ fi.sb_width \in 1 .. 1024
  /\ fi.sb_height \in 1 .. 1024

\* C6, amended: the same, for 1 <= sb_width <= 1024 and 1 <= sb_height <= 1024.
C6_HeaderMatchesTableIn16Bits ==
  (HeaderReturned /\ ~hfi.show_existing_frame /\ FitsHeaderFields(hfi)) =>
    DecodesAs(packet, HeaderTable(hfi))

\* a header with the tile_cols bit and the largest width the field can hold
C6_Witness ==
  /\ HeaderReturned
  /\ ~hfi.show_existing_frame
  /\ hfi.sb_width = 1024
  /\ hfi.qindex = 255
  /\ Len(packet) = 14

(***************************************************************************)
(* The encoder: encode_tile, search_partition, search_best_mode, write_sb  *)
(***************************************************************************)

\* bounds of the encoder model
MaxPicNone == 3      \* largest whole-superblock cost level of an input picture
RdScale == 2         \* an f64 rd value is kept in units of 1 / RdScale

\* frame sizes in superblocks, <<sb_width, sb_height>>
FrameShapes == { <<1, 1>>, <<1, 2>>, <<2, 1>>, <<2, 2>> }

\* RAV1E_INTRA_MODES, in the order search_best_mode walks them
RAV1E_INTRA_MODES ==
  << "DC_PRED", "V_PRED", "H_PRED", "PAETH_PRED", "SMOOTH_PRED",
     "SMOOTH_V_PRED", "SMOOTH_H_PRED", "D45_PRED", "D135_PRED",
     "D117_PRED", "D153_PRED", "D207_PRED", "D63_PRED" >>

NumModes == Len(RAV1E_INTRA_MODES)

\* discriminants of enum BlockSize; `bsize >= BLOCK_8X8` compares them
BlockSizeOrd(bsize) ==
  CASE bsize = "BLOCK_4X4" -> 0
    [] bsize = "BLOCK_8X8" -> 3
    [] bsize = "BLOCK_16X16" -> 6
    [] bsize = "BLOCK_32X32" -> 9
    [] bsize = "BLOCK_64X64" -> 12
    [] OTHER -> 22

mi_size_wide(bsize) ==
  CASE bsize = "BLOCK_4X4" -> 1
    [] bsize = "BLOCK_8X8" -> 2
    [] bsize = "BLOCK_16X16" -> 4
    [] bsize = "BLOCK_32X32" -> 8
    [] bsize = "BLOCK_64X64" -> 16

mi_size_high(bsize) == mi_size_wide(bsize)

\* get_subsize(bsize, PARTITION_SPLIT)
SplitSubsize(bsize) ==
  CASE bsize = "BLOCK_64X64" -> "BLOCK_32X32"
    [] bsize = "BLOCK_32X32" -> "BLOCK_16X16"
    [] bsize = "BLOCK_16X16" -> "BLOCK_8X8"
    [] bsize = "BLOCK_8X8" -> "BLOCK_4X4"
    [] OTHER -> "BLOCK_INVALID"

\* the four quadrant offsets of a split, in the order the code visits them
Quadrant(bo, bsize, k) ==
  LET hbsw == mi_size_wide(bsize) \div 2
      hbsh == mi_size_high(bsize) \div 2
  IN  CASE k = 0 -> Bo(bo.x, bo.y)
        [] k = 1 -> Bo(bo.x + hbsw, bo.y)
        [] k = 2 -> Bo(bo.x, bo.y + hbsh)
        [] k = 3 -> Bo(bo.x + hbsw, bo.y + hbsh)

\* ---- the input picture ------------------------------------------------

\* A picture is summarised by what the encoder measures on it:
\*   none - the whole cost level of a 64x64 block under its best mode,
\*   frac - the fractional part (in 1/RdScale) every cost of the picture has,
\*   best - the index of the mode that predicts the picture best.
Pictures ==
  [none : 0 .. MaxPicNone, frac : 0 .. RdScale - 1, best : {1, 7, NumModes}]

Abs(n) == IF n < 0 THEN 0 - n ELSE n

\* distortion + lambda * rate of coding the block at bo with mode number m
\* (compute_rd_cost), in units of 1 / RdScale.  A 32x32 quadrant costs 0 or 1
\* depending on its column, so a split of a 64x64 block costs 2 in total; the
\* quadrants are predicted best by the mode opposite to the whole block's.
RdOf(p, m, bsize, bo) ==
  LET whole == bsize = "BLOCK_64X64"
      level == IF whole THEN p.none ELSE (bo.x \div 8) % 2
      best == IF whole THEN p.best ELSE NumModes + 1 - p.best
  IN  RdScale * level + p.frac + (Abs(m - best) \div 2)

\* `best_rd as u64`: truncation towards zero
AsU64(rd) == rd \div RdScale

\* f64::MAX, larger than every rd cost
F64_MAX == 2^30

\* ---- ContextWriter ----------------------------------------------------

CdfKinds == {"partition", "skip", "intra_mode_kf", "intra_uv_mode", "tx_type", "coeffs"}

\* a symbol handed to the range coder, with the arguments of the write call
Sym(k, p, x, y, a, b) == [k |-> k, p |-> p, x |-> x, y |-> y, a |-> a, b |-> b]

\* what one symbol adds to the range coder's running state
SymCode(s) == 2 * s.p + s.x + 3 * s.y + 1

\* the sum of SymCode over syms[lo .. hi]
RECURSIVE SymCodes(_, _, _)
SymCodes(syms, lo, hi) ==
  IF lo > hi THEN 0
  ELSE IF lo = hi THEN SymCode(syms[lo])
  ELSE SymCodes(syms, lo, (lo + hi) \div 2) + SymCodes(syms, ((lo + hi) \div 2) + 1, hi)

\* the range coder's running state (low, range, bits_left) after the symbols
\* syms have gone through it, one after the other
EncFold(st, syms) == (st + SymCodes(syms, 1, Len(syms))) % 65521

\* ec::Writer::new
WriterNew == [st |-> 0, buf |-> << >>]

\* w.done(): the bytes the coder has produced, flushed
WriterDone(w) ==
  [i \in 1 .. (Len(w.buf) \div 64) + 1 |-> (w.st + i) % 256]

\* BlockContext::new(cols, rows): block grid with default blocks, empty strips
BlockContextNew(cols, rows) ==
  [ cols |-> cols, rows |-> rows,
    blocks |-> << >>,
    above_coeff_context |-> [p \in 0 .. 2 |-> {}],
    left_coeff_context |-> [p \in 0 .. 2 |-> {}],
    above_partition_context |-> << >>,
    left_partition_context |-> << >> ]

\* Block::default
BlockDefault == [mode |-> "DC_PRED", partition |-> "PARTITION_NONE"]

\* the index of the block at bo in the grid's row-major storage
BlockIndex(bc, bo) == bo.y * bc.cols + bo.x

\* bc.at(bo), reading; only the blocks that differ from the default are kept
BlockAt(bc, bo) ==
  IF BlockIndex(bc, bo) \in DOMAIN bc.blocks
  THEN bc.blocks[BlockIndex(bc, bo)] ELSE BlockDefault

\* a function f overridden with value v at key k
Override(f, k, v) ==
  [j \in (DOMAIN f) \cup {k} |-> IF j = k THEN v ELSE f[j]]

\* bc.set_mode(bo, mode) / bc.at(bo).mode = mode
SetMode(bc, bo, mode) ==
  [bc EXCEPT !.blocks = Override(@, BlockIndex(bc, bo), [BlockAt(bc, bo) EXCEPT !.mode = mode])]

\* bc.set_partition(bo, partition)
SetPartition(bc, bo, partition) ==
  [bc EXCEPT !.blocks =
     Override(@, BlockIndex(bc, bo), [BlockAt(bc, bo) EXCEPT !.partition = partition])]

\* ContextWriter { w, fc, bc }
ContextWriterNew(cols, rows) ==
  [ w |-> WriterNew,
    fc |-> [k \in CdfKinds |-> 0],
    bc |-> BlockContextNew(cols, rows) ]

\* every write_* call: the symbols go through the range coder in order, each
\* adapting the CDF of its kind; write_coeffs also marks the coefficient
\* context strips at the transform block's column and row
WriteSymbols(c, syms) ==
  LET coeffAt(p) == {i \in 1 .. Len(syms) : syms[i].k = "coeffs" /\ syms[i].p = p}
  IN  [ w |-> [st |-> EncFold(c.w.st, syms), buf |-> c.w.buf \o syms],
        fc |-> [k \in CdfKinds |->
                  c.fc[k] + Cardinality({i \in 1 .. Len(syms) : syms[i].k = k})],
        bc |-> [c.bc EXCEPT
                  !.above_coeff_context =
                     [p \in 0 .. 2 |-> @[p] \cup {syms[i].x : i \in coeffAt(p)}],
                  !.left_coeff_context =
                     [p \in 0 .. 2 |->
                        @[p] \cup {syms[i].y % MAX_MIB_SIZE : i \in coeffAt(p)}]] ]

\* cw.bc.reset_left_coeff_context(p) for p in 0..3
ResetLeftCoeffContexts(c) ==
  [c EXCEPT !.bc.left_coeff_context = [p \in 0 .. 2 |-> {}]]

\* cw.bc.update_partition_context(bo, subsize, bsize)
UpdatePartitionContext(c, bo, subsize, bsize) ==
  LET bs == mi_size_wide(bsize)
      xs == bo.x .. bo.x + bs - 1
      ys == {(bo.y + i) % MAX_MIB_SIZE : i \in 0 .. bs - 1}
      fill(f, keys) ==
        [j \in (DOMAIN f) \cup keys |-> IF j \in keys THEN subsize ELSE f[j]]
  IN  [c EXCEPT !.bc.above_partition_context = fill(@, xs),
                !.bc.left_partition_context = fill(@, ys)]

\* the parts of a ContextWriter a checkpoint covers, in full
Speculative(c) ==
  [ st |-> c.w.st, buf |-> c.w.buf, fc |-> c.fc,
    above_coeff_context |-> c.bc.above_coeff_context,
    left_coeff_context |-> c.bc.left_coeff_context,
    above_partition_context |-> c.bc.above_partition_context,
    left_partition_context |-> c.bc.left_partition_context ]

\* cw.checkpoint(): the coder state and the length of the buffer, a copy of
\* the CDFs and a copy of the neighbour strips
Checkpoint(c) ==
  [ st |-> c.w.st, len |-> Len(c.w.buf), fc |-> c.fc,
    above_coeff_context |-> c.bc.above_coeff_context,
    left_coeff_context |-> c.bc.left_coeff_context,
    above_partition_context |-> c.bc.above_partition_context,
    left_partition_context |-> c.bc.left_partition_context ]

\* cw.rollback(checkpoint): the block grid is not part of the snapshot
Rollback(c, cp) ==
  [ w |-> [st |-> cp.st, buf |-> SubSeq(c.w.buf, 1, cp.len)],
    fc |-> cp.fc,
    bc |-> [c.bc EXCEPT
              !.above_coeff_context = cp.above_coeff_context,
              !.left_coeff_context = cp.left_coeff_context,
              !.above_partition_context = cp.above_partition_context,
              !.left_partition_context = cp.left_partition_context] ]

\* ---- write_b ----------------------------------------------------------

\* write_b with the loop over plane U run before the luma loop
TxBlocksChromaFirst(bsize, bo) ==
  LET bw == mi_size_wide(bsize)
      bh == mi_size_high(bsize)
      cw2 == bw \div 2
      ch2 == bh \div 2
      uv_bo == Bo(bo.x \div 2, bo.x \div 2)
      luma == [k \in 1 .. bw * bh |->
                 [p |-> 0, x |-> bo.x + ((k - 1) % bw), y |-> bo.y + ((k - 1) \div bw)]]
      chroma(p) == [k \in 1 .. cw2 * ch2 |->
                 [p |-> p, x |-> uv_bo.x + ((k - 1) % cw2),
                           y |-> uv_bo.y + ((k - 1) \div cw2)]]
  IN  chroma(1) \o luma \o chroma(2)

\* the transform blocks write_b codes, in order: luma, then both chroma
\* planes from uv_bo = (bo.x >> xdec, bo.x >> ydec)
TxBlocks(bsize, bo) ==
  LET bw == mi_size_wide(bsize)
      bh == mi_size_high(bsize)
      cw2 == bw \div 2
      ch2 == bh \div 2
      uv_bo == Bo(bo.x \div 2, bo.x \div 2)
      luma == [k \in 1 .. bw * bh |->
                 [p |-> 0, x |-> bo.x + ((k - 1) % bw), y |-> bo.y + ((k - 1) \div bw)]]
      chroma(p) == [k \in 1 .. cw2 * ch2 |->
                 [p |-> p, x |-> uv_bo.x + ((k - 1) % cw2),
                           y |-> uv_bo.y + ((k - 1) \div cw2)]]
  IN  luma \o chroma(1) \o chroma(2)

\* the plane of a Frame::new(sb_width * 64, sb_height * 64) frame
PlaneStride(fi, p) == IF p = 0 THEN fi.sb_width * 64 ELSE fi.sb_width * 32

PlaneYdec(p) == IF p = 0 THEN 0 ELSE 1

\* write_tx_b reaches past the end of the plane's samples
TxOutsidePlane(fi, tx) ==
  LET stride == PlaneStride(fi, tx.p)
      po == Bo(tx.x * 4, tx.y * 4)
      rows == IF PlaneYdec(tx.p) = 0 THEN fi.sb_height * 64 ELSE fi.sb_height * 32
  IN  (po.y + 3) * stride + po.x + 3 >= rows * stride

\* what write_tx_b adds to the reconstructed planes
Reconstruct(f, txs) ==
  [f EXCEPT !.rec = [p \in 0 .. 2 |->
                       @[p] + Cardinality({k \in DOMAIN txs : txs[k].p = p})]]

\* one step of write_b, for the history
Step(op, p, x, y) == [op |-> op, p |-> p, x |-> x, y |-> y]

\* write_b: [cw |-> the writer afterwards, panic |-> a slice index failed,
\* done |-> the transform blocks coded, steps |-> what it did, in order]
WriteB(fi, c, mode, bsize, bo) ==
  LET txs == TxBlocks(bsize, bo)
      bad == {k \in 1 .. Len(txs) : TxOutsidePlane(fi, txs[k])}
      stop == IF bad = {} THEN Len(txs) + 1
              ELSE CHOOSE k \in bad : \A j \in bad : k <= j
      head == << Sym("skip", 0, bo.x, bo.y, "false", bsize),
                 Sym("intra_mode_kf", 0, bo.x, bo.y, mode, bsize),
                 Sym("intra_uv_mode", 0, bo.x, bo.y, mode, bsize),
                 Sym("tx_type", 0, bo.x, bo.y, "DCT_DCT", bsize) >>
      coeffs == [k \in 1 .. stop - 1 |->
                   Sym("coeffs", txs[k].p, txs[k].x, txs[k].y, "DCT_DCT", "TX_4X4")]
      c1 == [c EXCEPT !.bc = SetMode(@, bo, mode)]
  IN  [ cw |-> WriteSymbols(c1, head \o coeffs), panic |-> bad # {},
        done |-> SubSeq(txs, 1, stop - 1),
        steps |-> << Step("set_mode", 0, bo.x, bo.y) >>
                  \o [k \in 1 .. 4 |-> Step(head[k].k, 0, bo.x, bo.y)]
                  \o [k \in 1 .. stop - 1 |->
                        Step("write_tx_b", txs[k].p, txs[k].x, txs[k].y)] ]

\* the history entry of a write_b call
WriteBRecord(wb, mode, bsize, bo) ==
  [bsize |-> bsize, bo |-> bo, mode |-> mode, steps |-> wb.steps,
   returned |-> ~wb.panic]

\* ---- the call stack ---------------------------------------------------

\* what a call returns: an RDOOutput from search_best_mode (with the rd cost
\* of every candidate, as history), a cost from search_partition, the bytes
\* of encode_tile and encode_frame
NoRet == [rd_cost |-> 0, pred_mode |-> "DC_PRED", rds |-> << >>, bytes |-> << >>]

NoCheckpoint == Checkpoint(ContextWriterNew(0, 0))

NoSpeculative == Speculative(ContextWriterNew(0, 0))

TileFrame ==
  [fn |-> "encode_tile", pc |-> "row", sbx |-> 0, sby |-> 0, ret |-> NoRet]

SearchPartitionFrame(bsize, bo) ==
  [ fn |-> "search_partition", pc |-> "none", bsize |-> bsize, bo |-> bo,
    ret |-> NoRet, rdo_none |-> NoRet,
    best_rd_cost |-> 0, best_partition |-> "PARTITION_NONE",
    split_tried |-> FALSE, checkpoint |-> NoCheckpoint,
    at_checkpoint |-> NoSpeculative, rd_costs |-> << >> ]

SearchBestModeFrame(bsize, bo, c) ==
  [ fn |-> "search_best_mode", pc |-> "checkpoint", bsize |-> bsize, bo |-> bo,
    ret |-> NoRet, idx |-> 1,
    best_mode |-> "DC_PRED", best_rd |-> F64_MAX,
    checkpoint |-> NoCheckpoint, rds |-> << >>,
    at_entry |-> Speculative(c), at_checkpoint |-> NoSpeculative ]

WriteSbFrame(bsize, bo) ==
  [ fn |-> "write_sb", pc |-> "enter", bsize |-> bsize, bo |-> bo,
    ret |-> NoRet, partition |-> "PARTITION_NONE", k |-> 0 ]

Top == stack[Len(stack)]

Running(fn, pc) ==
  /\ estatus = "running"
  /\ stack # << >>
  /\ Top.fn = fn
  /\ Top.pc = pc

\* the caller moves on to frame f and calls callee
Call(f, callee) == Append([stack EXCEPT ![Len(stack)] = f], callee)

\* the top frame returns value to its caller
Return(value) ==
  [SubSeq(stack, 1, Len(stack) - 1) EXCEPT ![Len(stack) - 1].ret = value]

\* an open checkpoint, as history: who took it and the writer as it was
OpenCheckpoint(c) == [owner |-> Len(stack), at |-> Speculative(c)]

\* ---- process_frame and encode_frame ------------------------------------

\* y4m_dec.read_frame(): a frame, the end of the stream, or an I/O error
ReadOutcomes == {"frame", "eof", "error"}

\* Option<Frame>: None, or the planes of the frame reconstructed before
NoFrame == [some |-> FALSE, planes |-> << >>]

SomeFrame(planes) == [some |-> TRUE, planes |-> planes]

\* the reconstruction an earlier call of process_frame has left in last_rec
EarlierRec == SomeFrame([p \in 0 .. 2 |-> 900 + p])

\* before FrameState::new
NoFrameState == [input |-> FALSE, rec |-> [p \in 0 .. 2 |-> 0]]

\* FrameState::new(&fi) and the copy of the y4m planes into fs.input; a plane
\* of fs.rec is kept as the number of transform blocks reconstructed into it
FrameStateNew == [input |-> TRUE, rec |-> [p \in 0 .. 2 |-> 0]]

\* what the history variable holds before anything has been decided or
\* written: last_rec as process_frame found it, the partitions and modes
\* search_partition has recorded, the steps of the latest write_b, and what
\* encode_tile has done: (reset, plane, row), (search, sbx, sby), (write, ..)
NoHist ==
  [ last_rec |-> NoFrame, decided |-> {}, tile |-> << >>,
    write_b |-> [bsize |-> "BLOCK_64X64", bo |-> [x |-> 0, y |-> 0],
                 mode |-> "DC_PRED", steps |-> << >>, returned |-> FALSE] ]

ProcessFrameFrame == [fn |-> "process_frame", pc |-> "read", ret |-> NoRet]

EncodeFrameFrame ==
  [fn |-> "encode_frame", pc |-> "header", ret |-> NoRet, packet |-> << >>]

IdleEncoder ==
  /\ efi = << >>
  /\ pic = << >>
  /\ cw = << >>
  /\ stack = << >>
  /\ estatus = "idle"
  /\ cps = << >>
  /\ tile_out = << >>
  /\ io = << >>
  /\ fs = << >>
  /\ hist = << >>

\* the calls of process_frame that are tried: every read outcome, with and
\* without show_existing_frame, on a first frame and on a later one.  The tile
\* encode never reads last_rec, so full encodes of a later frame are taken at
\* the smallest frame size only, the calls that never reach encode_tile are
\* taken on one picture, and the frames of four superblocks are encoded from
\* the pictures that are cheapest to code whole.
ProcessInputs ==
  { i \in [read : ReadOutcomes, show : BOOLEAN, last : {NoFrame, EarlierRec},
           shape : FrameShapes, pic : Pictures] :
      IF i.read = "frame" /\ ~i.show
      THEN /\ i.last = NoFrame \/ i.shape = << 1, 1 >>
           /\ i.shape = << 2, 2 >> => (i.pic.none = 0 /\ i.pic.frac = 0)
      ELSE i.pic = [none |-> 0, frac |-> 0, best |-> 1] }

\* process_frame is entered; encode_tile will build a fresh ContextWriter
InitEncoder ==
  /\ \E i \in ProcessInputs :
       /\ efi = [FrameInvariantsNew(i.shape[1] * 64, i.shape[2] * 64, 100)
                   EXCEPT !.show_existing_frame = i.show]
       /\ cw = ContextWriterNew(i.shape[1] * 16, i.shape[2] * 16)
       /\ pic = i.pic
       /\ io = [y4m |-> i.read, output |-> << >>, rec_out |-> << >>,
                last_rec |-> i.last, ret |-> "none"]
       /\ hist = [NoHist EXCEPT !.last_rec = i.last]
  /\ stack = << ProcessFrameFrame >>
  /\ estatus = "running"
  /\ cps = << >>
  /\ tile_out = << >>
  /\ fs = NoFrameState

\* match y4m_dec.read_frame(): Ok => FrameState::new, the input planes are
\* filled, encode_frame is called; otherwise false is returned
PfRead ==
  /\ Running("process_frame", "read")
  /\ IF io.y4m = "frame"
     THEN /\ fs' = FrameStateNew
          /\ stack' = Call([Top EXCEPT !.pc = "write"], EncodeFrameFrame)
          /\ UNCHANGED <<io, estatus>>
     ELSE /\ io' = [io EXCEPT !.ret = "false"]
          /\ stack' = << >>
          /\ estatus' = "done"
          /\ UNCHANGED fs
  /\ UNCHANGED <<efi, pic, cw, cps, tile_out, hist, nonEncoderVars>>

\* the bits the first k statements of write_uncompressed_header hand to the
\* BitWriter; byte_align pads what is pending in its queue
RECURSIVE HeaderBits(_, _)
HeaderBits(stmts, k) ==
  IF k = 0 THEN << >>
  ELSE LET before == HeaderBits(stmts, k - 1)
           pending == SubSeq(before, Len(before) - (Len(before) % 8) + 1, Len(before))
           st == stmts[k]
       IN  before \o (CASE st.op = "write" -> BitsBE(st.bits, st.value)
                        [] st.op = "write_bit" -> << st.bit >>
                        [] st.op = "byte_align" -> AlignBits(pending))

\* the BitWriter writes a byte for every eight bits it was handed
PackBytes(bits) ==
  [ i \in 1 .. (Len(bits) \div 8) |-> BitsValue(SubSeq(bits, 8 * i - 7, 8 * i)) ]

\* the packet write_uncompressed_header leaves when called on an empty one
HeaderBytes(sequence, fi) ==
  LET stmts == HeaderStmts(sequence, fi)
  IN  PackBytes(HeaderBits(stmts, Len(stmts)))

\* the show_existing_frame branch without its copy
CopyLastRecSkipped(f, last_rec) == f

\* match last_rec: Some(rec) => every plane of fs.rec is overwritten with the
\* plane of rec; None => nothing
CopyLastRec(f, last_rec) ==
  IF last_rec.some THEN [f EXCEPT !.rec = last_rec.planes] ELSE f

\* write_uncompressed_header(&mut packet, sequence, fi); on show_existing_frame
\* the planes of last_rec, if any, are copied into fs.rec and the packet is
\* returned; otherwise encode_tile is called
EfHeader ==
  /\ Running("encode_frame", "header")
  /\ LET header == HeaderBytes(SequenceNew, efi)
     IN  IF efi.show_existing_frame
         THEN /\ fs' = CopyLastRec(fs, io.last_rec)
              /\ stack' = Return([NoRet EXCEPT !.bytes = header])
         ELSE /\ fs' = fs
              /\ stack' = Call([Top EXCEPT !.pc = "tile", !.packet = header],
                               TileFrame)
  /\ UNCHANGED <<efi, pic, cw, estatus, cps, tile_out, io, hist, nonEncoderVars>>

\* packet.write(&tile); packet
EfTile ==
  /\ Running("encode_frame", "tile")
  /\ stack' = Return([NoRet EXCEPT !.bytes = Top.packet \o Top.ret.bytes])
  /\ UNCHANGED <<efi, pic, cw, estatus, cps, tile_out, io, fs, hist, nonEncoderVars>>

\* write_ivf_frame: the length of the data, the pts, the data
IvfFrame(pts, data) == [size |-> Len(data), pts |-> pts, data |-> data]

\* write_ivf_frame(output_file, fi.number, packet); the reconstruction goes
\* to y4m_enc when there is one; *last_rec = Some(fs.rec); true
PfWrite ==
  /\ Running("process_frame", "write")
  /\ \E y4m_enc \in BOOLEAN :
       io' = [io EXCEPT
                !.output = Append(@, IvfFrame(efi.number, Top.ret.bytes)),
                !.rec_out = IF y4m_enc THEN Append(@, fs.rec) ELSE @,
                !.last_rec = SomeFrame(fs.rec),
                !.ret = "true"]
  /\ stack' = << >>
  /\ estatus' = "done"
  /\ UNCHANGED <<efi, pic, cw, cps, tile_out, fs, hist, nonEncoderVars>>

\* encode_tile's result with the push of the zero byte left out
TileBytesUnpadded(w) == WriterDone(w)

\* let mut h = cw.w.done(); h.push(0); h
TileBytes(w) == Append(WriterDone(w), 0)

\* ---- encode_tile ------------------------------------------------------

\* one step of encode_tile, for the history
TileEvent(op, x, y) == [op |-> op, x |-> x, y |-> y]

\* for sby in 0..fi.sb_height: reset the left coefficient contexts
TileRow ==
  /\ Running("encode_tile", "row")
  /\ Top.sby < efi.sb_height
  /\ cw' = ResetLeftCoeffContexts(cw)
  /\ stack' = [stack EXCEPT ![Len(stack)] = [@ EXCEPT !.pc = "sb", !.sbx = 0]]
  /\ hist' = [hist EXCEPT !.tile =
                @ \o [p \in 1 .. 3 |-> TileEvent("reset", p - 1, Top.sby)]]
  /\ UNCHANGED <<efi, pic, estatus, cps, tile_out, io, fs, nonEncoderVars>>

\* the loops of encode_tile nested the other way round
TileSearchColumnFirst ==
  /\ Running("encode_tile", "sb")
  /\ Top.sbx < efi.sb_width
  /\ LET sbo == Bo(Top.sby, Top.sbx)
     IN  /\ stack' = Call([Top EXCEPT !.pc = "write"],
                          SearchPartitionFrame("BLOCK_64X64", SbBlockOffset(sbo)))
         /\ hist' = [hist EXCEPT !.tile =
                       Append(@, TileEvent("search", sbo.x, sbo.y))]
  /\ UNCHANGED <<efi, pic, cw, estatus, cps, tile_out, io, fs, nonEncoderVars>>

\* for sbx in 0..fi.sb_width: search_partition(BLOCK_64X64, bo)
TileSearch ==
  /\ Running("encode_tile", "sb")
  /\ Top.sbx < efi.sb_width
  /\ LET sbo == Bo(Top.sbx, Top.sby)
     IN  /\ stack' = Call([Top EXCEPT !.pc = "write"],
                          SearchPartitionFrame("BLOCK_64X64", SbBlockOffset(sbo)))
         /\ hist' = [hist EXCEPT !.tile =
                       Append(@, TileEvent("search", sbo.x, sbo.y))]
  /\ UNCHANGED <<efi, pic, cw, estatus, cps, tile_out, io, fs, nonEncoderVars>>

\* write_sb(BLOCK_64X64, bo) after the search has returned
TileWrite ==
  /\ Running("encode_tile", "write")
  /\ stack' = Call([Top EXCEPT !.pc = "sb", !.sbx = @ + 1],
                   WriteSbFrame("BLOCK_64X64",
                                SbBlockOffset(Bo(Top.sbx, Top.sby))))
  /\ hist' = [hist EXCEPT !.tile = Append(@, TileEvent("write", Top.sbx, Top.sby))]
  /\ UNCHANGED <<efi, pic, cw, estatus, cps, tile_out, io, fs, nonEncoderVars>>

\* the end of a superblock row
TileRowEnd ==
  /\ Running("encode_tile", "sb")
  /\ Top.sbx >= efi.sb_width
  /\ stack' = [stack EXCEPT ![Len(stack)] = [@ EXCEPT !.pc = "row", !.sby = @ + 1]]
  /\ UNCHANGED <<efi, pic, cw, estatus, cps, tile_out, io, fs, hist, nonEncoderVars>>

\* let mut h = cw.w.done(); h.push(0); h
TileDone ==
  /\ Running("encode_tile", "row")
  /\ Top.sby >= efi.sb_height
  /\ tile_out' = TileBytes(cw.w)
  /\ stack' = Return([NoRet EXCEPT !.bytes = TileBytes(cw.w)])
  /\ UNCHANGED <<efi, pic, cw, estatus, cps, io, fs, hist, nonEncoderVars>>

\* ---- search_best_mode -------------------------------------------------

\* for &mode in RAV1E_INTRA_MODES: let checkpoint = cw.checkpoint()
SbmCheckpoint ==
  /\ Running("search_best_mode", "checkpoint")
  /\ Top.idx <= NumModes
  /\ stack' = [stack EXCEPT ![Len(stack)] =
                 [@ EXCEPT !.pc = "write_b", !.checkpoint = Checkpoint(cw),
                           !.at_checkpoint = Speculative(cw)]]
  /\ cps' = Append(cps, OpenCheckpoint(cw))
  /\ UNCHANGED <<efi, pic, cw, estatus, tile_out, io, fs, hist, nonEncoderVars>>

\* rd <= best_rd
RdIsBetterOrEqual(rd, best_rd) == rd <= best_rd

\* rd < best_rd
RdIsBetter(rd, best_rd) == rd < best_rd

\* write_b, the rd cost of what it wrote, and the comparison with the best
SbmWriteB ==
  /\ Running("search_best_mode", "write_b")
  /\ LET f == Top
         wb == WriteB(efi, cw, RAV1E_INTRA_MODES[f.idx], f.bsize, f.bo)
         rd == RdOf(pic, f.idx, f.bsize, f.bo)
         better == RdIsBetter(rd, f.best_rd)
     IN  /\ cw' = wb.cw
         /\ IF wb.panic
            THEN /\ estatus' = "panic"
                 /\ stack' = stack
            ELSE /\ estatus' = estatus
                 /\ stack' = [stack EXCEPT ![Len(stack)] =
                      [@ EXCEPT !.pc = "rollback",
                                !.rds = Append(@, rd),
                                !.best_rd = IF better THEN rd ELSE @,
                                !.best_mode = IF better THEN RAV1E_INTRA_MODES[f.idx]
                                              ELSE @]]
         /\ fs' = Reconstruct(fs, wb.done)
         /\ hist' = [hist EXCEPT !.write_b =
                       WriteBRecord(wb, RAV1E_INTRA_MODES[f.idx], f.bsize, f.bo)]
  /\ UNCHANGED <<efi, pic, cps, tile_out, io, nonEncoderVars>>

\* search_best_mode without its cw.rollback(checkpoint.clone())
SbmRollbackSkipped ==
  /\ Running("search_best_mode", "rollback")
  /\ stack' = [stack EXCEPT ![Len(stack)] =
                 [@ EXCEPT !.pc = "checkpoint", !.idx = @ + 1]]
  /\ cps' = SubSeq(cps, 1, Len(cps) - 1)
  /\ UNCHANGED <<efi, pic, cw, estatus, tile_out, io, fs, hist, nonEncoderVars>>

\* cw.rollback(checkpoint.clone()), and on to the next mode
SbmRollback ==
  /\ Running("search_best_mode", "rollback")
  /\ cw' = Rollback(cw, Top.checkpoint)
  /\ stack' = [stack EXCEPT ![Len(stack)] =
                 [@ EXCEPT !.pc = "checkpoint", !.idx = @ + 1]]
  /\ cps' = SubSeq(cps, 1, Len(cps) - 1)
  /\ UNCHANGED <<efi, pic, estatus, tile_out, io, fs, hist, nonEncoderVars>>

\* assert!(best_rd as i64 >= 0); RDOOutput { rd_cost: best_rd as u64, pred_mode }
SbmReturn ==
  /\ Running("search_best_mode", "checkpoint")
  /\ Top.idx > NumModes
  /\ IF Top.best_rd >= 0
     THEN /\ stack' = Return([rd_cost |-> AsU64(Top.best_rd),
                              pred_mode |-> Top.best_mode,
                              rds |-> Top.rds])
          /\ estatus' = estatus
     ELSE /\ stack' = stack
          /\ estatus' = "panic"
  /\ UNCHANGED <<efi, pic, cw, cps, tile_out, io, fs, hist, nonEncoderVars>>

\* ---- search_partition -------------------------------------------------

\* let rdo_none = search_best_mode(fi, fs, cw, bsize, bo)
SpSearchNone ==
  /\ Running("search_partition", "none")
  /\ stack' = Call([Top EXCEPT !.pc = "after_none"],
                   SearchBestModeFrame(Top.bsize, Top.bo, cw))
  /\ UNCHANGED <<efi, pic, cw, estatus, cps, tile_out, io, fs, hist, nonEncoderVars>>

min_splitable_bsize == "BLOCK_64X64"

\* the test with > in place of >=, which no block size passes
SplitAllowedAboveOnly(bsize) ==
  /\ mi_size_wide(bsize) = mi_size_high(bsize)
  /\ BlockSizeOrd(bsize) > BlockSizeOrd(min_splitable_bsize)

\* square_blk && bsize >= min_splitable_bsize
SplitAllowed(bsize) ==
  /\ mi_size_wide(bsize) = mi_size_high(bsize)
  /\ BlockSizeOrd(bsize) >= BlockSizeOrd(min_splitable_bsize)

\* set_mode(bo, rdo_none.pred_mode); best_rd_cost = rdo_none.rd_cost; and the
\* checkpoint before the split trial when the block may be split
SpAfterNone ==
  /\ Running("search_partition", "after_none")
  /\ LET f == Top
         c1 == [cw EXCEPT !.bc = SetMode(@, f.bo, f.ret.pred_mode)]
         f1 == [f EXCEPT !.rdo_none = f.ret, !.best_rd_cost = f.ret.rd_cost]
     IN  /\ cw' = c1
         /\ IF SplitAllowed(f.bsize)
            THEN /\ stack' = [stack EXCEPT ![Len(stack)] =
                      [f1 EXCEPT !.pc = "split", !.split_tried = TRUE,
                                 !.checkpoint = Checkpoint(c1),
                                 !.at_checkpoint = Speculative(c1)]]
                 /\ cps' = Append(cps, OpenCheckpoint(c1))
            ELSE /\ stack' = [stack EXCEPT ![Len(stack)] = [f1 EXCEPT !.pc = "record"]]
                 /\ cps' = cps
  /\ UNCHANGED <<efi, pic, estatus, tile_out, io, fs, hist, nonEncoderVars>>

\* let rd_cost<k> = search_partition(fi, fs, cw, subsize, quadrant k)
SpSplitCall ==
  /\ Running("search_partition", "split")
  /\ Len(Top.rd_costs) < 4
  /\ stack' = Call([Top EXCEPT !.pc = "split_ret"],
                   SearchPartitionFrame(SplitSubsize(Top.bsize),
                                        Quadrant(Top.bo, Top.bsize, Len(Top.rd_costs))))
  /\ UNCHANGED <<efi, pic, cw, estatus, cps, tile_out, io, fs, hist, nonEncoderVars>>

\* the quadrant's search has returned its cost
SpSplitReturned ==
  /\ Running("search_partition", "split_ret")
  /\ stack' = [stack EXCEPT ![Len(stack)] =
                 [@ EXCEPT !.pc = "split", !.rd_costs = Append(@, Top.ret.rd_cost)]]
  /\ UNCHANGED <<efi, pic, cw, estatus, cps, tile_out, io, fs, hist, nonEncoderVars>>

\* rd_cost_sum <= best_rd_cost
SplitIsBetterOrEqual(rd_cost_sum, best_rd_cost) == rd_cost_sum <= best_rd_cost

\* rd_cost_sum < best_rd_cost
SplitIsBetter(rd_cost_sum, best_rd_cost) == rd_cost_sum < best_rd_cost

\* cw.rollback(checkpoint.clone()); the choice between NONE and SPLIT
SpAfterSplit ==
  /\ Running("search_partition", "split")
  /\ Len(Top.rd_costs) = 4
  /\ LET f == Top
         c1 == Rollback(cw, f.checkpoint)
         rd_cost_sum == f.rd_costs[1] + f.rd_costs[2] + f.rd_costs[3] + f.rd_costs[4]
     IN  IF SplitIsBetter(rd_cost_sum, f.best_rd_cost)
         THEN /\ cw' = c1
              /\ stack' = [stack EXCEPT ![Len(stack)] =
                   [f EXCEPT !.pc = "record", !.best_rd_cost = rd_cost_sum,
                             !.best_partition = "PARTITION_SPLIT"]]
         ELSE /\ cw' = [c1 EXCEPT !.bc = SetMode(@, f.bo, f.rdo_none.pred_mode)]
              /\ stack' = [stack EXCEPT ![Len(stack)] = [f EXCEPT !.pc = "record"]]
  /\ cps' = SubSeq(cps, 1, Len(cps) - 1)
  /\ UNCHANGED <<efi, pic, estatus, tile_out, io, fs, hist, nonEncoderVars>>

\* cw.bc.set_partition(bo, best_partition); write_sb(fi, fs, cw, bsize, bo)
SpRecord ==
  /\ Running("search_partition", "record")
  /\ cw' = [cw EXCEPT !.bc = SetPartition(@, Top.bo, Top.best_partition)]
  /\ stack' = Call([Top EXCEPT !.pc = "return"], WriteSbFrame(Top.bsize, Top.bo))
  /\ hist' = [hist EXCEPT !.decided =
       {d \in @ : d.bo # Top.bo \/ d.bsize # Top.bsize}
       \cup {[bo |-> Top.bo, bsize |-> Top.bsize,
               partition |-> Top.best_partition,
               mode |-> BlockAt(cw.bc, Top.bo).mode]}]
  /\ UNCHANGED <<efi, pic, estatus, cps, tile_out, io, fs, nonEncoderVars>>

\* best_rd_cost
SpReturn ==
  /\ Running("search_partition", "return")
  /\ stack' = Return([NoRet EXCEPT !.rd_cost = Top.best_rd_cost])
  /\ UNCHANGED <<efi, pic, cw, estatus, cps, tile_out, io, fs, hist, nonEncoderVars>>

\* ---- write_sb ---------------------------------------------------------

\* the two asserts on bsize
WriteSbAsserts(bsize) ==
  /\ BlockSizeOrd(bsize) >= BlockSizeOrd("BLOCK_8X8")
  /\ bsize \in {"BLOCK_8X8", "BLOCK_16X16", "BLOCK_32X32", "BLOCK_64X64"}

\* the asserts, get_partition(bo) and write_partition(bo, partition, bsize)
WsbEnter ==
  /\ Running("write_sb", "enter")
  /\ LET f == Top
         partition == BlockAt(cw.bc, f.bo).partition
     IN  IF WriteSbAsserts(f.bsize)
           /\ partition \in {"PARTITION_NONE", "PARTITION_SPLIT"}
         THEN /\ cw' = WriteSymbols(cw, << Sym("partition", 0, f.bo.x, f.bo.y,
                                               partition, f.bsize) >>)
              /\ stack' = [stack EXCEPT ![Len(stack)] =
                   [f EXCEPT !.partition = partition,
                             !.pc = IF partition = "PARTITION_NONE"
                                    THEN "none" ELSE "split"]]
              /\ estatus' = estatus
         ELSE /\ cw' = cw
              /\ stack' = stack
              /\ estatus' = "panic"
  /\ UNCHANGED <<efi, pic, cps, tile_out, io, fs, hist, nonEncoderVars>>

\* PARTITION_NONE: write_b(get_mode(bo)), then update_partition_context
WsbNone ==
  /\ Running("write_sb", "none")
  /\ LET f == Top
         mode == BlockAt(cw.bc, f.bo).mode
         wb == WriteB(efi, cw, mode, f.bsize, f.bo)
     IN  /\ cw' = wb.cw
         /\ fs' = Reconstruct(fs, wb.done)
         /\ hist' = [hist EXCEPT !.write_b = WriteBRecord(wb, mode, f.bsize, f.bo)]
         /\ IF wb.panic
            THEN /\ stack' = stack
                 /\ estatus' = "panic"
            ELSE /\ stack' = [stack EXCEPT ![Len(stack)] = [f EXCEPT !.pc = "update"]]
                 /\ estatus' = estatus
  /\ UNCHANGED <<efi, pic, cps, tile_out, io, nonEncoderVars>>

\* PARTITION_SPLIT: write_sb on the four quadrants, one after the other
WsbSplit ==
  /\ Running("write_sb", "split")
  /\ stack' = IF Top.k < 4
              THEN Call([Top EXCEPT !.k = @ + 1],
                        WriteSbFrame(SplitSubsize(Top.bsize),
                                     Quadrant(Top.bo, Top.bsize, Top.k)))
              ELSE [stack EXCEPT ![Len(stack)] = [@ EXCEPT !.pc = "update"]]
  /\ UNCHANGED <<efi, pic, cw, estatus, cps, tile_out, io, fs, hist, nonEncoderVars>>

\* cw.bc.update_partition_context(&bo, subsize, bsize), and return
WsbUpdate ==
  /\ Running("write_sb", "update")
  /\ cw' = UpdatePartitionContext(cw, Top.bo, SplitSubsize(Top.bsize), Top.bsize)
  /\ stack' = Return(NoRet)
  /\ UNCHANGED <<efi, pic, estatus, cps, tile_out, io, fs, hist, nonEncoderVars>>

NextEncoder ==
  \/ PfRead \/ EfHeader \/ EfTile \/ PfWrite
  \/ TileRow \/ TileSearch \/ TileWrite \/ TileRowEnd \/ TileDone
  \/ SbmCheckpoint \/ SbmWriteB \/ SbmRollback \/ SbmReturn
  \/ SpSearchNone \/ SpAfterNone \/ SpSplitCall \/ SpSplitReturned
  \/ SpAfterSplit \/ SpRecord \/ SpReturn
  \/ WsbEnter \/ WsbNone \/ WsbSplit \/ WsbUpdate

(***************************************************************************)
(* Claims on the encoder                                                   *)
(***************************************************************************)

\* the superblocks encode_tile has finished: search_partition and write_sb
\* have both returned
FinishedSuperblocks ==
  IF Running("encode_tile", "sb")
  THEN {sbo \in [x : 0 .. efi.sb_width - 1, y : 0 .. efi.sb_height - 1] :
          sbo.y < Top.sby \/ (sbo.y = Top.sby /\ sbo.x < Top.sbx)}
  ELSE {}

\* the committed symbols of one kind written for the 64x64 block at bo
CommittedRootSymbols(kind, bo) ==
  {i \in 1 .. Len(cw.w.buf) :
     /\ cw.w.buf[i].k = kind
     /\ cw.w.buf[i].x = bo.x
     /\ cw.w.buf[i].y = bo.y
     /\ cw.w.buf[i].b = "BLOCK_64X64"}

\* C3: once a superblock has been processed, the committed symbol stream holds
\* exactly one root-level (64x64) partition symbol for it and one set of block
\* symbols (skip, intra mode, uv mode, tx type) for its block.
C3_FinalEmissionOnce ==
  \A sbo \in FinishedSuperblocks :
    /\ Cardinality(CommittedRootSymbols("partition", SbBlockOffset(sbo))) = 1
    /\ \A kind \in {"skip", "intra_mode_kf", "intra_uv_mode", "tx_type"} :
         Cardinality(CommittedRootSymbols(kind, SbBlockOffset(sbo))) <= 1

\* the parts of the ContextWriter the claim names: the range coder state with
\* its buffer, the CDF tables and the coefficient context strips
Neutral(s) ==
  [ st |-> s.st, buf |-> s.buf, fc |-> s.fc,
    above_coeff_context |-> s.above_coeff_context,
    left_coeff_context |-> s.left_coeff_context ]

\* the frames that hold a checkpoint they have not rolled back yet
InTrial(f) ==
  \/ f.fn = "search_best_mode" /\ f.pc \in {"write_b", "rollback"}
  \/ f.fn = "search_partition" /\ f.pc \in {"split", "split_ret"}

TrialFrames == {i \in 1 .. Len(stack) : InTrial(stack[i])}

\* C4: the checkpoints not rolled back yet are exactly those of the frames
\* inside a trial, one each, innermost last, and each frame holds the
\* checkpoint it took; right after a rollback the range coder state, its
\* buffer, the CDFs and the coefficient strips are what they were at the
\* checkpoint; search_best_mode is about to return with the writer as it was
\* at entry.
C4_SpeculationIsNeutral ==
  /\ Len(cps) = Cardinality(TrialFrames)
  /\ \A j \in 1 .. Len(cps) :
       /\ cps[j].owner \in TrialFrames
       /\ j < Len(cps) => cps[j].owner < cps[j + 1].owner
       /\ cps[j].at = stack[cps[j].owner].at_checkpoint
       /\ stack[cps[j].owner].checkpoint.st = cps[j].at.st
       /\ stack[cps[j].owner].checkpoint.len = Len(cps[j].at.buf)
       /\ stack[cps[j].owner].checkpoint.fc = cps[j].at.fc
  /\ \A i \in 1 .. Len(stack) :
       /\ (i = Len(stack) /\ stack[i].fn = "search_best_mode"
             /\ stack[i].pc = "checkpoint") =>
            /\ Neutral(Speculative(cw)) = Neutral(stack[i].at_entry)
            /\ stack[i].idx > 1 =>
                 Neutral(Speculative(cw)) = Neutral(stack[i].at_checkpoint)
       /\ (i = Len(stack) /\ stack[i].fn = "search_partition"
             /\ stack[i].pc = "record" /\ stack[i].split_tried) =>
            Neutral(Speculative(cw)) = Neutral(stack[i].at_checkpoint)

\* search_best_mode of the second quadrant of a split trial is about to
\* return: every candidate was rolled back on top of the first quadrant's
\* symbols, inside the trial's own checkpoint
C4_Witness ==
  /\ Running("search_best_mode", "checkpoint")
  /\ Top.idx = NumModes + 1
  /\ Top.bsize = "BLOCK_32X32"
  /\ Top.bo = Bo(8, 0)
  /\ Len(cps) = 1
  /\ Len(cw.w.buf) > 0
  /\ Top.at_entry = Speculative(cw)

\* the search_partition frames past set_partition
DecidedFrames ==
  {i \in 1 .. Len(stack) :
     stack[i].fn = "search_partition" /\ stack[i].pc = "return"}

\* rd_cost0 + rd_cost1 + rd_cost2 + rd_cost3 of a frame whose trial is over
QuadrantSum(f) == f.rd_costs[1] + f.rd_costs[2] + f.rd_costs[3] + f.rd_costs[4]

\* the frame tried the split and the quadrants together cost strictly less
SplitWins(f) == f.split_tried /\ QuadrantSum(f) < f.rdo_none.rd_cost

\* C7: search_partition records PARTITION_SPLIT iff the split was tried
\* (square block, bsize >= min_splitable_bsize) and the quadrants' costs sum
\* to strictly less than the NONE cost; otherwise it records PARTITION_NONE
\* and the grid mode at bo is the best NONE mode; the cost it returns is the
\* smaller of the two, the NONE cost when no split was tried.
C7_SplitIffStrictlyLess ==
  \A i \in DecidedFrames :
    LET f == stack[i]
        blk == BlockAt(cw.bc, f.bo)
    IN  /\ f.split_tried <=>
             BlockSizeOrd(f.bsize) >= BlockSizeOrd(min_splitable_bsize)
        /\ f.split_tried => Len(f.rd_costs) = 4
        /\ blk.partition = "PARTITION_SPLIT" <=> SplitWins(f)
        /\ ~SplitWins(f) =>
             /\ blk.partition = "PARTITION_NONE"
             /\ blk.mode = f.rdo_none.pred_mode
        /\ f.best_rd_cost =
             IF f.split_tried THEN Min(QuadrantSum(f), f.rdo_none.rd_cost)
             ELSE f.rdo_none.rd_cost

\* a 64x64 block whose quadrants cost less than the block: SPLIT is recorded
C7_Witness ==
  \E i \in DecidedFrames :
    /\ SplitWins(stack[i])
    /\ BlockAt(cw.bc, stack[i].bo).partition = "PARTITION_SPLIT"
    /\ stack[i].best_rd_cost < stack[i].rdo_none.rd_cost

\* a 64x64 block whose quadrants cost exactly as much as the block
C7_TieReached ==
  \E i \in DecidedFrames :
    /\ stack[i].split_tried
    /\ QuadrantSum(stack[i]) = stack[i].rdo_none.rd_cost
    /\ BlockAt(cw.bc, stack[i].bo).partition = "PARTITION_NONE"

\* the frames search_best_mode has just returned to
ModeReturned ==
  {i \in 1 .. Len(stack) :
     stack[i].fn = "search_partition" /\ stack[i].pc = "after_none"
       /\ i = Len(stack)}

\* C8: the mode search_best_mode returns is the first candidate of
\* RAV1E_INTRA_MODES whose rd cost is minimal over all candidates, and the
\* rd_cost it returns is that minimum as an integer, never negative.
C8_EarliestMinimalMode ==
  \A i \in ModeReturned :
    LET f == stack[i]
        rds == f.ret.rds
        least == CHOOSE m \in 1 .. NumModes :
                   /\ \A n \in 1 .. NumModes : rds[m] <= rds[n]
                   /\ \A n \in 1 .. m - 1 : rds[n] > rds[m]
    IN  /\ Len(rds) = NumModes
        /\ \A m \in 1 .. NumModes : rds[m] = RdOf(pic, m, f.bsize, f.bo)
        /\ f.ret.pred_mode = RAV1E_INTRA_MODES[least]
        /\ f.ret.rd_cost = rds[least] \div RdScale
        /\ f.ret.rd_cost >= 0

\* three candidates share the minimal cost and the first of them, which is
\* not the first of the list, is returned
C8_Witness ==
  \E i \in ModeReturned :
    /\ stack[i].ret.rds[6] = stack[i].ret.rds[7]
    /\ stack[i].ret.rds[7] = stack[i].ret.rds[8]
    /\ \A m \in 1 .. NumModes : stack[i].ret.rds[6] <= stack[i].ret.rds[m]
    /\ stack[i].ret.pred_mode = "SMOOTH_V_PRED"


\* ---- C11 ----------------------------------------------------------------

\* encode_frame has returned its packet to process_frame
EncodeFrameReturned == Running("process_frame", "write")

\* C11: for show_existing_frame = false the packet encode_frame returns is the
\* uncompressed header followed by the tile data, and the tile data is what
\* the range coder's done() returns followed by one zero byte: the last byte
\* of the packet is 0 and its length is header + coder output + 1.
C11_PacketIsHeaderThenTile ==
  (EncodeFrameReturned /\ ~efi.show_existing_frame) =>
    LET p == Top.ret.bytes
        header == HeaderBytes(SequenceNew, efi)
        coded == WriterDone(cw.w)
    IN  /\ p = header \o coded \o << 0 >>
        /\ p[Len(p)] = 0
        /\ Len(p) = Len(header) + Len(coded) + 1

\* a packet of a full encode, on a frame of more than one superblock, whose
\* coder output does not itself end in a zero byte
C11_Witness ==
  /\ EncodeFrameReturned
  /\ ~efi.show_existing_frame
  /\ efi.sb_height > 1
  /\ WriterDone(cw.w)[Len(WriterDone(cw.w))] # 0
  /\ Len(Top.ret.bytes) > Len(HeaderBytes(SequenceNew, efi)) + 1

\* ---- C12 ----------------------------------------------------------------

\* the call of process_frame is over: it has returned, or it has panicked
ProcessFrameOver == estatus \in {"done", "panic"}

\* C12: when read_frame fails or reports the end of the stream, process_frame
\* returns false, writes nothing to the output or to the reconstruction sink
\* and leaves last_rec as it was; when a frame is read, one IVF frame record
\* is written, last_rec becomes the frame's reconstruction and true is
\* returned.
C12_FrameReadWritesOneRecord ==
  ProcessFrameOver =>
    IF io.y4m # "frame"
    THEN /\ io.ret = "false"
         /\ io.output = << >>
         /\ io.rec_out = << >>
         /\ io.last_rec = hist.last_rec
    ELSE /\ io.ret = "true"
         /\ Len(io.output) = 1
         /\ io.last_rec = SomeFrame(fs.rec)

\* ---- C13 ----------------------------------------------------------------

\* the search_partition invocations in progress
SearchPartitionFrames ==
  {i \in DOMAIN stack : stack[i].fn = "search_partition"}

\* C13, as claimed: with min_splitable_bsize = BLOCK_64X64 search_partition
\* never attempts the four-quadrant split trial and never records
\* PARTITION_SPLIT, so every superblock is one 64x64 PARTITION_NONE block.
C13_SplitDisabled ==
  /\ \A i \in SearchPartitionFrames :
       /\ ~stack[i].split_tried
       /\ stack[i].best_partition = "PARTITION_NONE"
  /\ \A d \in hist.decided : d.partition = "PARTITION_NONE"

\* C13, amended: the split trial is attempted on the 64x64 blocks and on no
\* smaller block: a 64x64 search enters the trial as soon as its
\* PARTITION_NONE search is over, PARTITION_SPLIT is recorded only for a 64x64
\* block, when the four quadrant costs sum to strictly less than the
\* PARTITION_NONE cost, and every smaller block is recorded PARTITION_NONE.
C13_SplitTriedAt64Only ==
  /\ \A i \in SearchPartitionFrames :
       LET f == stack[i]
       IN  /\ f.split_tried => f.bsize = "BLOCK_64X64"
           /\ (f.bsize = "BLOCK_64X64" /\ f.pc \notin {"none", "after_none"})
                => f.split_tried
           /\ f.best_partition = "PARTITION_SPLIT"
                => /\ f.bsize = "BLOCK_64X64"
                   /\ QuadrantSum(f) < f.rdo_none.rd_cost
  /\ \A d \in hist.decided :
       d.bsize # "BLOCK_64X64" => d.partition = "PARTITION_NONE"

\* a 64x64 block for which the trial ran and PARTITION_SPLIT was recorded,
\* its quadrants having been recorded PARTITION_NONE
C13_Witness ==
  /\ \E d \in hist.decided :
       d.bsize = "BLOCK_64X64" /\ d.partition = "PARTITION_SPLIT"
  /\ \E d \in hist.decided :
       d.bsize = "BLOCK_32X32" /\ d.partition = "PARTITION_NONE"

\* ---- C15, C16 -----------------------------------------------------------

\* the write_sb invocations in progress
WriteSbFrames == {i \in DOMAIN stack : stack[i].fn = "write_sb"}

\* C15: no assertion of write_sb fires: every write_sb invocation has a square
\* bsize >= BLOCK_8X8 and reads a partition that is PARTITION_NONE or
\* PARTITION_SPLIT, so the recursion stops at or above 8x8.
C15_NoWriteSbAssertFires ==
  /\ \A i \in WriteSbFrames : WriteSbAsserts(stack[i].bsize)
  /\ ~(estatus = "panic" /\ Top.fn = "write_sb" /\ Top.pc = "enter")

\* the partition symbols in the coder's buffer
PartitionSymbols ==
  {i \in 1 .. Len(cw.w.buf) : cw.w.buf[i].k = "partition"}

\* what search_partition recorded for the block of a partition symbol
DecidedFor(sym) ==
  {d \in hist.decided : d.bo = Bo(sym.x, sym.y) /\ d.bsize = sym.b}

\* C16: the partition tree written by write_sb is the tree search_partition
\* decided: every block written, the top-left quadrant of a split block
\* included, is one the search decided, and is written with the partition its
\* own search_partition call recorded.
C16_WrittenTreeIsDecidedTree ==
  \A i \in PartitionSymbols :
    /\ DecidedFor(cw.w.buf[i]) # {}
    /\ \A d \in DecidedFor(cw.w.buf[i]) : d.partition = cw.w.buf[i].a

\* ---- C18, C20 -----------------------------------------------------------

\* the transform blocks of one plane in the latest write_b, in coding order
CodedIn(p) ==
  SelectSeq(hist.write_b.steps, LAMBDA s : s.op = "write_tx_b" /\ s.p = p)

\* the chroma footprint co-located with the luma block at bo, in raster
\* order: (bo.x >> xdec) + bx, (bo.y >> ydec) + by
ChromaFootprint(p, bsize, bo) ==
  LET cw2 == mi_size_wide(bsize) \div 2
      ch2 == mi_size_high(bsize) \div 2
  IN  [k \in 1 .. cw2 * ch2 |->
         Step("write_tx_b", p, (bo.x \div 2) + ((k - 1) % cw2),
                               (bo.y \div 2) + ((k - 1) \div cw2))]

\* a sequence is the beginning of another
IsPrefix(s, t) == Len(s) <= Len(t) /\ s = SubSeq(t, 1, Len(s))

\* C18: the chroma transform blocks write_b codes for a block at bo are those
\* of the co-located chroma footprint, each once, in planes U and V.
C18_ChromaIsCoLocated ==
  \A p \in {1, 2} :
    /\ IsPrefix(CodedIn(p), ChromaFootprint(p, hist.write_b.bsize, hist.write_b.bo))
    /\ hist.write_b.returned
         => CodedIn(p) = ChromaFootprint(p, hist.write_b.bsize, hist.write_b.bo)

\* the latest write_b call is the last thing that happened to the writer
JustWroteB ==
  \/ Running("search_best_mode", "rollback")
  \/ Running("write_sb", "update") /\ Top.partition = "PARTITION_NONE"
  \/ estatus = "panic" /\ Top.pc \in {"write_b", "none"}

\* the symbols the latest write_b call has emitted
WrittenByB ==
  SubSeq(cw.w.buf, Len(cw.w.buf) - Len(hist.write_b.steps) + 2, Len(cw.w.buf))

\* the luma cells of a block's bw x bh footprint, in raster order
LumaFootprint(bsize, bo) ==
  LET bw == mi_size_wide(bsize)
  IN  [k \in 1 .. bw * mi_size_high(bsize) |->
         Step("write_tx_b", 0, bo.x + ((k - 1) % bw), bo.y + ((k - 1) \div bw))]

\* C20: write_b first stores the mode in the block grid at bo, then emits
\* skip = false, the keyframe intra mode, the UV mode (the luma mode) and the
\* tx type, and only then codes transform blocks: every luma 4x4 cell of the
\* footprint once in raster order, then the blocks of plane U, then those of
\* plane V.
C20_WriteBOrder ==
  JustWroteB =>
    LET b == hist.write_b
        tx == SelectSeq(b.steps, LAMBDA s : s.op = "write_tx_b")
    IN  /\ [k \in 1 .. 5 |-> b.steps[k].op]
             = << "set_mode", "skip", "intra_mode_kf", "intra_uv_mode", "tx_type" >>
        /\ BlockAt(cw.bc, b.bo).mode = b.mode
        /\ [k \in 1 .. 4 |-> << WrittenByB[k].k, WrittenByB[k].a >>]
             = << << "skip", "false" >>, << "intra_mode_kf", b.mode >>,
                  << "intra_uv_mode", b.mode >>, << "tx_type", "DCT_DCT" >> >>
        /\ b.steps = SubSeq(b.steps, 1, 5) \o tx
        /\ \A k \in 1 .. Len(tx) :
             /\ WrittenByB[4 + k].k = "coeffs"
             /\ WrittenByB[4 + k].p = tx[k].p
             /\ WrittenByB[4 + k].x = tx[k].x
             /\ WrittenByB[4 + k].y = tx[k].y
        /\ tx = CodedIn(0) \o CodedIn(1) \o CodedIn(2)
        /\ CodedIn(0) = LumaFootprint(b.bsize, b.bo)
        /\ b.returned =>
             /\ Len(CodedIn(1)) = Len(CodedIn(0)) \div 4
             /\ Len(CodedIn(2)) = Len(CodedIn(1))

\* a write_b call on a 32x32 block away from the frame's origin that has
\* coded all three planes
C20_Witness ==
  /\ JustWroteB
  /\ hist.write_b.returned
  /\ hist.write_b.bsize = "BLOCK_32X32"
  /\ hist.write_b.bo # Bo(0, 0)
  /\ Len(CodedIn(2)) > 0

\* ---- C19 ----------------------------------------------------------------

\* C19: every write_sb invocation performs all its steps, in order: the
\* partition symbol, then write_b with the grid's mode (PARTITION_NONE) or the
\* four quadrants in Z-order (PARTITION_SPLIT), then update_partition_context
\* once.  An invocation past its partition symbol goes on to its content and
\* its update: none is left at its content when the encode is over, and an
\* invocation that is splitting has its quadrants ahead of it or returned.
C19_WriteSbCompletesInOrder ==
  \A i \in WriteSbFrames :
    LET f == stack[i]
    IN  /\ ProcessFrameOver => f.pc \notin {"none", "split"}
        /\ f.pc = "split" =>
             /\ f.partition = "PARTITION_SPLIT"
             /\ f.k \in 0 .. 4
             /\ i < Len(stack) =>
                  /\ stack[i + 1].fn = "write_sb"
                  /\ stack[i + 1].bsize = SplitSubsize(f.bsize)
                  /\ stack[i + 1].bo = Quadrant(f.bo, f.bsize, f.k - 1)

(***************************************************************************)
(* write_tx_b                                                              *)
(***************************************************************************)

\* bound of the write_tx_b model: samples 0 .. MaxSample
MaxSample == 3

\* a transform block is kept as two samples; the transform pair is the
\* two-point sum / difference, exact when nothing is quantized
Block == [1 .. 2 -> 0 .. MaxSample]

\* the quantizer steps tried (the table entries a qindex selects)
QuantSteps == {1, 2, 4}

\* fht4x4(&residual, &mut coeffs, 4, tx_type)
Fht(r) == << r[1] + r[2], r[1] - r[2] >>

\* the inverse transform of a block of coefficients
Iht(c) == << (c[1] + c[2]) \div 2, (c[1] - c[2]) \div 2 >>

\* quantize_in_place: sign(c) * floor(|c| / quant_step)
Quantize(step, c) ==
  [k \in 1 .. 2 |-> IF c[k] < 0 THEN -((-c[k]) \div step) ELSE c[k] \div step]

\* dequantize: the product with the quantizer step
Dequantize(step, c) == [k \in 1 .. 2 |-> c[k] * step]

\* iht4x4_add: the inverse transform added onto the block, each sample
\* clipped to the 8-bit range
IhtAdd(rcoeffs, rec) ==
  [k \in 1 .. 2 |->
     LET v == rec[k] + Iht(rcoeffs)[k]
     IN  IF v < 0 THEN 0 ELSE IF v > 255 THEN 255 ELSE v]

\* diff_4x4
Diff4x4(src1, src2) == [k \in 1 .. 2 |-> src1[k] - src2[k]]

IdleTx == txb = << >>

\* write_tx_b is entered on an intra block: the input block, the block the
\* predictor will compute from the neighbours, what rec holds before, and the
\* quantizer step of fi.qindex
InitTx ==
  \E input \in Block, pred \in Block, step \in QuantSteps :
    txb = [ pc |-> "predict", step |-> step, pred |-> pred,
            input |-> input, rec |-> [k \in 1 .. 2 |-> MaxSample],
            residual |-> << 0, 0 >>, coeffs |-> << 0, 0 >>,
            rcoeffs |-> << 0, 0 >>, written |-> << >>,
            entry_input |-> input, predicted |-> << >>, trace |-> << >> ]

\* the step that follows, with the step taken added to the history
TxGoto(t, op, pc) == [t EXCEPT !.pc = pc, !.trace = Append(@, op)]

\* mode.predict_4x4(&mut rec.mut_slice(&po))
TxPredict ==
  /\ txb.pc = "predict"
  /\ txb' = TxGoto([txb EXCEPT !.rec = txb.pred, !.predicted = txb.pred],
                   "predict", "diff")
  /\ UNCHANGED nonTxVars

\* diff_4x4(&mut residual, &fs.input.planes[p].slice(&po), &rec.slice(&po))
TxDiff ==
  /\ txb.pc = "diff"
  /\ txb' = TxGoto([txb EXCEPT !.residual = Diff4x4(txb.input, txb.rec)],
                   "diff", "fht")
  /\ UNCHANGED nonTxVars

\* fht4x4(&residual, &mut coeffs, 4, tx_type)
TxFht ==
  /\ txb.pc = "fht"
  /\ txb' = TxGoto([txb EXCEPT !.coeffs = Fht(txb.residual)], "fht", "quantize")
  /\ UNCHANGED nonTxVars

\* quantize_in_place(fi.qindex, &mut coeffs)
TxQuantize ==
  /\ txb.pc = "quantize"
  /\ txb' = TxGoto([txb EXCEPT !.coeffs = Quantize(txb.step, txb.coeffs)],
                   "quantize", "write_coeffs")
  /\ UNCHANGED nonTxVars

\* cw.write_coeffs(p, bo, &coeffs, TxSize::TX_4X4, tx_type)
TxWriteCoeffs ==
  /\ txb.pc = "write_coeffs"
  /\ txb' = TxGoto([txb EXCEPT !.written = Append(@, txb.coeffs)],
                   "write_coeffs", "dequantize")
  /\ UNCHANGED nonTxVars

\* the reconstruction taken from the transform of the residual, unquantized
TxDequantizeSkipped ==
  /\ txb.pc = "dequantize"
  /\ txb' = TxGoto([txb EXCEPT !.rcoeffs = Fht(txb.residual)],
                   "dequantize", "iht_add")
  /\ UNCHANGED nonTxVars

\* dequantize(fi.qindex, &coeffs, &mut rcoeffs)
TxDequantize ==
  /\ txb.pc = "dequantize"
  /\ txb' = TxGoto([txb EXCEPT !.rcoeffs = Dequantize(txb.step, txb.coeffs)],
                   "dequantize", "iht_add")
  /\ UNCHANGED nonTxVars

\* iht4x4_add(&mut rcoeffs, rec.mut_slice(&po).as_mut_slice(), stride, tx_type)
TxIhtAdd ==
  /\ txb.pc = "iht_add"
  /\ txb' = TxGoto([txb EXCEPT !.rec = IhtAdd(txb.rcoeffs, txb.rec)],
                   "iht_add", "done")
  /\ UNCHANGED nonTxVars

NextTx ==
  \/ TxPredict
  \/ TxDiff
  \/ TxFht
  \/ TxQuantize
  \/ TxWriteCoeffs
  \/ TxDequantize
  \/ TxIhtAdd

(***************************************************************************)
(* Claims on write_tx_b                                                    *)
(***************************************************************************)

\* the steps of write_tx_b, as claimed
TxOrder ==
  << "predict", "diff", "fht", "quantize", "write_coeffs", "dequantize",
     "iht_add" >>

\* what a decoder rebuilds from the prediction and the written coefficients
Decoded(t) == IhtAdd(Dequantize(t.step, t.written[1]), t.predicted)

\* C21: write_tx_b predicts into rec, takes residual = input - prediction,
\* transforms, quantizes, writes the quantized coefficients, dequantizes and
\* inverse-transform-adds into rec, in this order; the reconstruction it
\* leaves is the one a decoder derives from the written coefficients, and the
\* input block is not modified.
C21_TxPipeline ==
  /\ txb.trace = SubSeq(TxOrder, 1, Len(txb.trace))
  /\ txb.input = txb.entry_input
  /\ txb.pc = "done" =>
       /\ txb.trace = TxOrder
       /\ txb.written
            = << Quantize(txb.step, Fht(Diff4x4(txb.input, txb.predicted))) >>
       /\ txb.rec = Decoded(txb)

\* a call that has returned with a lossy reconstruction: the quantizer has
\* changed the coefficients, and rec differs from prediction + residual
C21_Witness ==
  /\ txb.pc = "done"
  /\ txb.residual # << 0, 0 >>
  /\ txb.rcoeffs # Fht(txb.residual)
  /\ txb.rec # txb.input

\* ---- C22 ----------------------------------------------------------------

\* the superblocks encode_tile has called search_partition / write_sb on
TileCalls(op) == SelectSeq(hist.tile, LAMBDA e : e.op = op)

\* the k-th superblock of the grid in raster order
RasterSb(k, op) ==
  TileEvent(op, (k - 1) % efi.sb_width, (k - 1) \div efi.sb_width)

\* C22: encode_tile processes every superblock of the sb_width x sb_height
\* grid once, in raster order, and resets the left coefficient context of the
\* three planes once per superblock row, before the first superblock of the
\* row and nowhere else.
C22_RasterOrderAndRowResets ==
  LET searched == TileCalls("search")
      written == TileCalls("write")
  IN  /\ Len(searched) <= efi.sb_width * efi.sb_height
      /\ \A k \in 1 .. Len(searched) : searched[k] = RasterSb(k, "search")
      /\ \A k \in 1 .. Len(written) : written[k] = RasterSb(k, "write")
      /\ Len(written) \in {Len(searched) - 1, Len(searched)}
      /\ (EncodeFrameReturned /\ ~efi.show_existing_frame) =>
           /\ Len(searched) = efi.sb_width * efi.sb_height
           /\ Len(written) = Len(searched)
      /\ \A k \in 1 .. Len(hist.tile) :
           LET e == hist.tile[k]
           IN  /\ (e.op = "search" /\ e.x = 0) =>
                    /\ k > 3
                    /\ \A p \in 0 .. 2 :
                         hist.tile[k - 3 + p] = TileEvent("reset", p, e.y)
               /\ e.op = "reset" =>
                    /\ \A j \in 1 .. Len(hist.tile) : hist.tile[j] = e => j = k
                    /\ k + 3 - e.x <= Len(hist.tile) =>
                         hist.tile[k + 3 - e.x] = TileEvent("search", 0, e.y)
      /\ cw # << >> /\ Running("encode_tile", "sb") /\ Top.sbx = 0 =>
           \A p \in 0 .. 2 : cw.bc.left_coeff_context[p] = {}

\* all four superblocks of a two by two frame have been processed
C22_Witness ==
  /\ EncodeFrameReturned
  /\ efi.sb_width = 2
  /\ efi.sb_height = 2
  /\ Len(TileCalls("write")) = 4
  /\ Len(TileCalls("reset")) = 6

\* ---- C23 ----------------------------------------------------------------

\* C23: with show_existing_frame the packet encode_frame returns is the
\* one-byte header alone (frame type 2, profile, show_existing_frame = 1,
\* frame_to_show = 0), no tile is encoded, and the three planes of fs.rec are
\* a copy of last_rec's when there is one and unchanged when there is none.
C23_ShowExistingFrame ==
  efi # << >> /\ efi.show_existing_frame =>
    /\ hist.tile = << >>
    /\ cw.w = WriterNew
    /\ tile_out = << >>
    /\ EncodeFrameReturned =>
         /\ Top.ret.bytes = << 136 >>
         /\ DecodesAs(Top.ret.bytes,
                      << HField(2, 2), HField(2, SequenceNew.profile),
                         HField(1, 1), HField(3, 0) >>)
         /\ fs.rec = IF hist.last_rec.some THEN hist.last_rec.planes
                     ELSE FrameStateNew.rec
         /\ io.last_rec = hist.last_rec

\* encode_frame has returned the one-byte packet with the planes of an
\* earlier reconstruction copied into fs.rec
C23_Witness ==
  /\ efi.show_existing_frame
  /\ EncodeFrameReturned
  /\ hist.last_rec = EarlierRec
  /\ fs.rec = EarlierRec.planes
  /\ fs.rec # FrameStateNew.rec

(***************************************************************************)
(* TileStateMut                                                            *)
(***************************************************************************)

\* bounds of the tile model: the luma size of the frame in samples, and the
\* number of motion-vector grids the frame holds
TileFrameWidth == 256
TileFrameHeight == 192
MvGrids == 2

\* a block is MI_SIZE = 1 << MI_SIZE_LOG2 luma samples wide and high
MI_SIZE_LOG2 == 2

\* the configuration of a plane of the frame, unpadded
TilePlaneCfg(xdec, ydec) ==
  [ stride |-> Shr(TileFrameWidth, xdec), alloc_height |-> Shr(TileFrameHeight, ydec),
    xorigin |-> 0, yorigin |-> 0, xdec |-> xdec, ydec |-> ydec ]

\* the frames a tile state is made on: 4:2:0, 4:2:2 and 4:4:4
TileFrames ==
  { [ planes |-> << TilePlaneCfg(0, 0), TilePlaneCfg(d[1], d[2]), TilePlaneCfg(d[1], d[2]) >>,
      mv_cols |-> Shr(TileFrameWidth, MI_SIZE_LOG2),
      mv_rows |-> Shr(TileFrameHeight, MI_SIZE_LOG2) ] :
      d \in { <<1, 1>>, <<1, 0>>, <<0, 0>> } }

\* TileRect::decimated
TileRectDecimated(rect, xdec, ydec) ==
  MkRect(Shr(rect.x, xdec), Shr(rect.y, ydec),
         Shr(rect.width, xdec), Shr(rect.height, ydec))

\* Tile::new / TileMut::new: one PlaneRegion(Mut)::new per plane, the luma
\* rect for plane 0 and the decimated rect for the chroma planes
TileNew(frame, luma_rect, isMut) ==
  LET rect(p) == IF p = 1 THEN luma_rect
                 ELSE TileRectDecimated(luma_rect, frame.planes[p].xdec,
                                        frame.planes[p].ydec)
  IN  [ panic |-> \E p \in 1 .. 3 : ~NewAsserts(frame.planes[p], rect(p)),
        planes |-> [ p \in 1 .. 3 |->
                       [ rect |-> rect(p), mut |-> isMut,
                         data |-> NewOrigin(frame.planes[p], rect(p)) ] ] ]

\* TileMotionVectorsMut::new: data addresses frame_mvs[y][x], which the
\* frame's own indexing bounds-checks
TileMotionVectorsNew(frame, x, y, cols, rows) ==
  [ panic |-> ~(y < frame.mv_rows /\ x < frame.mv_cols),
    data |-> y * frame.mv_cols + x, x |-> x, y |-> y,
    cols |-> cols, rows |-> rows, stride |-> frame.mv_cols ]

IdleTile == ts = [made |-> FALSE, panic |-> FALSE]

InitTile == ts = [made |-> FALSE, panic |-> FALSE]

\* TileStateMut::new; the two debug_assert! are compiled in debug builds only
TileStateMutNew(frame, sbo, sb_size_log2, width, height, debug) ==
  /\ ~ts.made
  /\ ~ts.panic
  /\ LET luma_rect == MkRect(Shl(sbo.x, sb_size_log2), Shl(sbo.y, sb_size_log2),
                             width, height)
         input_tile == TileNew(frame, luma_rect, FALSE)
         rec == TileNew(frame, luma_rect, TRUE)
         mv == TileMotionVectorsNew(frame,
                 Shl(sbo.x, sb_size_log2 - MI_SIZE_LOG2),
                 Shl(sbo.y, sb_size_log2 - MI_SIZE_LOG2),
                 Shr(width, MI_SIZE_LOG2), Shr(height, MI_SIZE_LOG2))
     IN  IF \/ debug /\ (width % (2^MI_SIZE_LOG2) # 0 \/ height % (2^MI_SIZE_LOG2) # 0)
            \/ input_tile.panic
            \/ rec.panic
            \/ mv.panic
           THEN ts' = [made |-> FALSE, panic |-> TRUE]
           ELSE ts' = [ made |-> TRUE, panic |-> FALSE, frame |-> frame,
                        sbo |-> sbo, sb_size_log2 |-> sb_size_log2,
                        width |-> width, height |-> height,
                        w_in_b |-> Shr(width, MI_SIZE_LOG2),
                        h_in_b |-> Shr(height, MI_SIZE_LOG2),
                        input_tile |-> input_tile.planes,
                        rec |-> rec.planes,
                        mvs |-> [ i \in 1 .. MvGrids |-> mv ],
                        call |-> [op |-> "none"] ]
  /\ UNCHANGED nonTileVars

\* TileStateMut::tile_rect
TileRectOf ==
  /\ ts.made
  /\ ts.call.op = "none"
  /\ ts' = [ts EXCEPT !.call =
              [ op |-> "tile_rect",
                ret |-> MkRect(Shl(ts.sbo.x, ts.sb_size_log2),
                               Shl(ts.sbo.y, ts.sb_size_log2),
                               ts.width, ts.height) ]]
  /\ UNCHANGED nonTileVars

\* to_frame_block_offset shifting by sb_size_log2 and then subtracting
ToFrameBlockOffsetShiftFirst(tile_bo) ==
  /\ ts.made
  /\ ts.call.op = "none"
  /\ LET bx == Shl(ts.sbo.x, ts.sb_size_log2) - MI_SIZE_LOG2
         by == Shl(ts.sbo.y, ts.sb_size_log2) - MI_SIZE_LOG2
     IN  ts' = [ts EXCEPT !.call =
                  [ op |-> "to_frame_block_offset", arg |-> tile_bo,
                    ret |-> Bo(bx + tile_bo.x, by + tile_bo.y) ]]
  /\ UNCHANGED nonTileVars

\* TileStateMut::to_frame_block_offset
ToFrameBlockOffset(tile_bo) ==
  /\ ts.made
  /\ ts.call.op = "none"
  /\ LET bx == Shl(ts.sbo.x, ts.sb_size_log2 - MI_SIZE_LOG2)
         by == Shl(ts.sbo.y, ts.sb_size_log2 - MI_SIZE_LOG2)
     IN  ts' = [ts EXCEPT !.call =
                  [ op |-> "to_frame_block_offset", arg |-> tile_bo,
                    ret |-> Bo(bx + tile_bo.x, by + tile_bo.y) ]]
  /\ UNCHANGED nonTileVars

\* TileStateMut::to_frame_super_block_offset
ToFrameSuperBlockOffset(tile_sbo) ==
  /\ ts.made
  /\ ts.call.op = "none"
  /\ ts' = [ts EXCEPT !.call =
              [ op |-> "to_frame_super_block_offset", arg |-> tile_sbo,
                ret |-> Bo(ts.sbo.x + tile_sbo.x, ts.sbo.y + tile_sbo.y) ]]
  /\ UNCHANGED nonTileVars

\* the tiles asked for: superblocks of 64 and 128 samples, tiles of one
\* block, of a superblock, of a size no multiple of a block, and tiles that
\* reach past the frame
TileSbos == { Bo(0, 0), Bo(1, 0), Bo(1, 1), Bo(2, 1), Bo(4, 0) }

TileSbSizeLog2s == {6, 7}

TileWidths == {4, 6, 64, 128}

TileHeights == {4, 64, 66}

TileOffsets == { Bo(0, 0), Bo(1, 0), Bo(3, 2) }

NextTile ==
  \/ \E frame \in TileFrames, sbo \in TileSbos, sb_size_log2 \in TileSbSizeLog2s,
        width \in TileWidths, height \in TileHeights, debug \in BOOLEAN :
       TileStateMutNew(frame, sbo, sb_size_log2, width, height, debug)
  \/ TileRectOf
  \/ \E tile_bo \in TileOffsets : ToFrameBlockOffset(tile_bo)
  \/ \E tile_sbo \in TileOffsets : ToFrameSuperBlockOffset(tile_sbo)

(***************************************************************************)
(* Claims on TileStateMut                                                  *)
(***************************************************************************)

\* the luma rectangle a tile state made with (sbo, sb_size_log2, width,
\* height) is meant to address
TileLumaRect ==
  MkRect(ts.sbo.x * 2^ts.sb_size_log2, ts.sbo.y * 2^ts.sb_size_log2,
         ts.width, ts.height)

\* the planes of a tile address the luma rectangle and its decimations
TileCovers(planes, isMut) ==
  \A p \in 1 .. 3 :
    LET cfg == ts.frame.planes[p]
        want == IF p = 1 THEN TileLumaRect
                ELSE MkRect(TileLumaRect.x \div 2^cfg.xdec, TileLumaRect.y \div 2^cfg.ydec,
                            TileLumaRect.width \div 2^cfg.xdec,
                            TileLumaRect.height \div 2^cfg.ydec)
    IN  /\ planes[p].rect = want
        /\ planes[p].mut = isMut
        /\ planes[p].data = (cfg.yorigin + want.y) * cfg.stride + cfg.xorigin + want.x

\* C26: all the views of a TileStateMut made with (sbo, sb_size_log2, width,
\* height) address one frame rectangle: tile_rect() is (sbo.x << sb_size_log2,
\* sbo.y << sb_size_log2, width, height); the luma views of input_tile and
\* rec cover it and the chroma views cover it shifted right by (xdec, ydec);
\* every motion-vector view starts at its origin / 4 and spans
\* w_in_b x h_in_b = (width >> 2) x (height >> 2) cells;
\* to_frame_block_offset(tile_bo) is tile_bo + origin / 4 and
\* to_frame_super_block_offset(tile_sbo) is sbo + tile_sbo.
C26_TileViewsAgree ==
  ts.made =>
    /\ TileCovers(ts.input_tile, FALSE)
    /\ TileCovers(ts.rec, TRUE)
    /\ ts.w_in_b = ts.width \div 4
    /\ ts.h_in_b = ts.height \div 4
    /\ \A i \in DOMAIN ts.mvs :
         /\ ts.mvs[i].x = TileLumaRect.x \div 4
         /\ ts.mvs[i].y = TileLumaRect.y \div 4
         /\ ts.mvs[i].cols = ts.w_in_b
         /\ ts.mvs[i].rows = ts.h_in_b
         /\ ts.mvs[i].data = ts.mvs[i].y * ts.frame.mv_cols + ts.mvs[i].x
    /\ ts.call.op = "tile_rect" => ts.call.ret = TileLumaRect
    /\ ts.call.op = "to_frame_block_offset" =>
         /\ ts.call.ret.x = ts.call.arg.x + TileLumaRect.x \div 4
         /\ ts.call.ret.y = ts.call.arg.y + TileLumaRect.y \div 4
         /\ ts.call.arg = Bo(0, 0) =>
              /\ 4 * ts.call.ret.x = ts.input_tile[1].rect.x
              /\ 4 * ts.call.ret.y = ts.input_tile[1].rect.y
    /\ ts.call.op = "to_frame_super_block_offset" =>
         ts.call.ret = Bo(ts.sbo.x + ts.call.arg.x, ts.sbo.y + ts.call.arg.y)

\* a tile off the origin of a 4:2:0 frame, smaller than its superblock, whose
\* block (3, 2) was mapped to the frame
C26_Witness ==
  /\ ts.made
  /\ ts.sbo = Bo(1, 1)
  /\ ts.sb_size_log2 = 6
  /\ ts.width = 4
  /\ ts.frame.planes[2].xdec = 1
  /\ ts.frame.planes[2].ydec = 1
  /\ ts.rec[2].rect = MkRect(32, 32, 2, 2)
  /\ ts.call.op = "to_frame_block_offset"
  /\ ts.call.arg = Bo(3, 2)
  /\ ts.call.ret = Bo(19, 18)

(***************************************************************************)
(* The specifications                                                      *)
(***************************************************************************)

InitSpecRegion ==
  InitRegion /\ IdleBlocks /\ IdleHeader /\ IdleEncoder /\ IdleTx /\ IdleTile

SpecRegion == InitSpecRegion /\ [][NextRegion]_vars

InitSpecBlocks ==
  IdleRegion /\ InitBlocks /\ IdleHeader /\ IdleEncoder /\ IdleTx /\ IdleTile

SpecBlocks == InitSpecBlocks /\ [][NextBlocks]_vars

InitSpecHeader ==
  IdleRegion /\ IdleBlocks /\ InitHeader /\ IdleEncoder /\ IdleTx /\ IdleTile

SpecHeader == InitSpecHeader /\ [][NextHeader]_vars

Init ==
  IdleRegion /\ IdleBlocks /\ IdleHeader /\ InitEncoder /\ IdleTx /\ IdleTile

Spec == Init /\ [][NextEncoder]_vars

InitSpecTx ==
  IdleRegion /\ IdleBlocks /\ IdleHeader /\ IdleEncoder /\ InitTx /\ IdleTile

SpecTx == InitSpecTx /\ [][NextTx]_vars

InitSpecTile ==
  IdleRegion /\ IdleBlocks /\ IdleHeader /\ IdleEncoder /\ IdleTx /\ InitTile

SpecTile == InitSpecTile /\ [][NextTile]_vars

=============================================================================
